---- MODULE Spec2Model ----
(***************************************************************************)
(* InstaReply: the webhook route, the in-memory job queue and the webhook  *)
(* worker, as state machines.                                              *)
(*                                                                         *)
(* JavaScript runs one task at a time: a handler or a promise continuation *)
(* runs to its next `await` without interruption.  Every action below is   *)
(* one such run-to-completion step; an awaited call (a persistence call,   *)
(* the classifier, the delivery client) takes effect in the step that      *)
(* resumes after it.                                                       *)
(***************************************************************************)
EXTENDS Integers, Sequences, FiniteSets, TLC

\* ------------------------------------------------------------------ bounds
MaxConcurrency == 2
MaxJobs == 3
MaxRequests == 2
MaxFaults == 1
MaxPolicyCalls == 2
MaxVerifyCalls == 1
MaxRulesCalls == 1
MaxJobCalls == 1
MaxAdminSends == 2
MaxContactPosts == 2

\* --------------------------------------------------------------- variables
VARIABLES
    queue,        \* InMemoryQueue.queue: the pending jobs, oldest first
    concurrency,  \* InMemoryQueue.concurrency
    hasOnError,   \* whether options.onError was given
    worker,       \* InMemoryQueue.worker: NoWorker until start()
    inFlight,     \* InMemoryQueue.inFlight
    runs,         \* the worker invocations: jid -> [job, pc, locals]
    nextJid,      \* identity of the next job object handed to enqueue()
    dispatched,   \* history: jids in the order worker(job) was called
    settledLog,   \* history: jids in the order their worker promise settled
    onErrorCalls, \* history: the calls of the onError hook, in order
    startJid,     \* history: nextJid at the first start(), 0 before it
    rawEvents,    \* table RawEvent, unique on igMessageId
    threads,      \* table Thread, unique on igThreadId
    messages,     \* table Message (rows), unique on id and on igMessageId
    deliveryLogs, \* table DeliveryLog (rows)
    sendCalls,    \* history: the calls of ig.sendMessage
    faults,       \* persistence calls that have failed so far
    requests,     \* history: the webhook requests received
    responses,    \* history: the response to each request
    enqueued,     \* history: the jobs handed to queue.enqueue by the route
    policies,     \* table ReplyPolicy (rows)
    policyCalls,  \* history: the replyPolicy.upsert calls the store has executed
    pendingUpserts, \* replyPolicy.upsert calls issued and not yet executed
    evaluated,    \* history: calls of the pure functions, with their results
    adminRuns,    \* the POST /admin/send requests: [messageId, pc, locals]
    process,      \* "running", or "exited" once the runtime has ended it
    contacts,     \* table Contact (rows), unique on senderIgId
    contactRuns   \* the contact-segment requests: [route, senderIgId, segment, pc]

queueVars == <<queue, concurrency, hasOnError, worker, inFlight, runs, nextJid,
               dispatched, settledLog, onErrorCalls, startJid>>

dbVars == <<rawEvents, threads, messages, deliveryLogs, sendCalls, faults>>

httpVars == <<requests, responses, enqueued>>

policyVars == <<policies, policyCalls, pendingUpserts>>

contactVars == <<contacts, contactRuns>>

otherVars == <<evaluated, adminRuns, process, contactVars>>

vars == <<queueVars, dbVars, httpVars, policyVars, otherVars>>

\* ------------------------------------------------------------ JS helpers
\* A property that may be missing: obj?.f ?? d
Get(obj, f, d) == IF f \in DOMAIN obj THEN obj[f] ELSE d

\* The value of a missing string property.
Undefined == "<undefined>"

\* JavaScript's !x for a string-or-undefined x.
Falsy(x) == x = Undefined \/ x = ""

IsWhitespace(c) == c \in {" ", "\t", "\n"}

\* String.prototype.trim
RECURSIVE TrimStart(_)
TrimStart(s) ==
    IF Len(s) > 0 /\ IsWhitespace(SubSeq(s, 1, 1))
    THEN TrimStart(SubSeq(s, 2, Len(s)))
    ELSE s

RECURSIVE TrimEnd(_)
TrimEnd(s) ==
    IF Len(s) > 0 /\ IsWhitespace(SubSeq(s, Len(s), Len(s)))
    THEN TrimEnd(SubSeq(s, 1, Len(s) - 1))
    ELSE s

Trim(s) == TrimEnd(TrimStart(s))

\* String.prototype.includes
Includes(s, k) ==
    \E i \in 1..(Len(s) - Len(k) + 1) : SubSeq(s, i, i + Len(k) - 1) = k

UpperChars == <<"A","B","C","D","E","F","G","H","I","J","K","L","M",
                "N","O","P","Q","R","S","T","U","V","W","X","Y","Z">>
LowerChars == <<"a","b","c","d","e","f","g","h","i","j","k","l","m",
                "n","o","p","q","r","s","t","u","v","w","x","y","z">>

LowerChar(c) ==
    IF \E i \in 1..26 : UpperChars[i] = c
    THEN LowerChars[CHOOSE i \in 1..26 : UpperChars[i] = c]
    ELSE c

\* String.prototype.toLowerCase
RECURSIVE ToLowerCase(_)
ToLowerCase(s) ==
    IF Len(s) = 0 THEN s
    ELSE LowerChar(SubSeq(s, 1, 1)) \o ToLowerCase(SubSeq(s, 2, Len(s)))

\* --------------------------------------------------------- verifySignature
HexDigits == {"0","1","2","3","4","5","6","7","8","9","a","b","c","d","e","f"}

\* The secrets and raw bodies of the model and the two hex digits each one
\* contributes to a digest.
DigestCode ==
    [app_secret |-> "5e", other_secret |-> "0d",
     bodyEmpty |-> "a0", bodyOne |-> "a1", bodyMixed |-> "b2",
     bodyReplay |-> "c3", bodyOther |-> "d4", bodyFriend |-> "e5",
     bodyGates |-> "f6", bodyClassify |-> "a7"]

\* crypto.createHmac("sha256", secret).update(body, "utf8").digest("hex"): a
\* lower-case hex string of fixed length, different for different (secret,
\* body) pairs of the model.
HmacHex(secret, body) == DigestCode[secret] \o DigestCode[body]

\* Buffer.from(text, "hex"): decodes pairs of hex digits, in either case, and
\* stops at the first pair that is not hex.  The buffer is given by the
\* lower-case hex of its bytes.
RECURSIVE HexDecode(_)
HexDecode(text) ==
    IF Len(text) >= 2
       /\ ToLowerCase(SubSeq(text, 1, 1)) \in HexDigits
       /\ ToLowerCase(SubSeq(text, 2, 2)) \in HexDigits
    THEN ToLowerCase(SubSeq(text, 1, 2)) \o HexDecode(SubSeq(text, 3, Len(text)))
    ELSE ""

SignaturePrefix == "sha256="

StartsWith(s, p) == Len(s) >= Len(p) /\ SubSeq(s, 1, Len(p)) = p

\* A mutant of verifySignature: only the prefix is checked.
verifyPrefixOnly(rawBody, headerSignature, appSecret) ==
    ~Falsy(headerSignature) /\ StartsWith(headerSignature, SignaturePrefix)

verifySignature(rawBody, headerSignature, appSecret) ==
    IF Falsy(headerSignature) \/ ~StartsWith(headerSignature, SignaturePrefix)
    THEN FALSE
    ELSE LET received == Trim(SubSeq(headerSignature, Len(SignaturePrefix) + 1,
                                     Len(headerSignature)))
             expected == HmacHex(appSecret, rawBody)
             receivedBuffer == HexDecode(received)
             expectedBuffer == HexDecode(expected)
         IN IF Len(receivedBuffer) # Len(expectedBuffer)
            THEN FALSE
            ELSE receivedBuffer = expectedBuffer

\* ------------------------------------------------- eventToJob, extractJobs
NoJob == [none |-> TRUE]

\* A mutant of eventToJob: the sender id is not checked.
eventToJobAnySender(entryId, event) ==
    LET message == Get(event, "message", <<>>)
        messageId == Get(message, "mid", Undefined)
        senderId == Get(Get(event, "sender", <<>>), "id", Undefined)
    IN IF Falsy(messageId)
       THEN NoJob
       ELSE [messageId |-> messageId, senderId |-> senderId,
             text |-> Get(message, "text", ""), threadId |-> entryId,
             isFromSelfOrSystem |-> Get(message, "is_echo", FALSE)]

\* eventToJob taking the thread from the entry whatever the event's
\* conversation, and the echo flag alone as the mark of an own message.
eventToJobEntryThread(entryId, event) ==
    LET message == Get(event, "message", <<>>)
        messageId == Get(message, "mid", Undefined)
        senderId == Get(Get(event, "sender", <<>>), "id", Undefined)
    IN IF Falsy(messageId) \/ Falsy(senderId)
       THEN NoJob
       ELSE [messageId |-> messageId,
             senderId |-> senderId,
             text |-> Get(message, "text", ""),
             threadId |-> entryId \o "_" \o senderId,
             isFromSelfOrSystem |-> Get(message, "is_echo", FALSE)]

eventToJob(entryId, event) ==
    LET message == Get(event, "message", <<>>)
        messageId == Get(message, "mid", Undefined)
        senderId == Get(Get(event, "sender", <<>>), "id", Undefined)
        recipientId == Get(Get(event, "recipient", <<>>), "id", Undefined)
        conversationId == Get(Get(event, "conversation", <<>>), "id", Undefined)
    IN IF Falsy(messageId) \/ Falsy(senderId)
       THEN NoJob
       ELSE [messageId |-> messageId,
             senderId |-> senderId,
             text |-> Get(message, "text", ""),
             threadId |-> IF conversationId # Undefined
                          THEN conversationId
                          ELSE entryId \o "_" \o senderId,
             isFromSelfOrSystem |->
                 Get(message, "is_echo", FALSE) \/ senderId = recipientId]

\* The jobs of one entry's messaging list, in order.
RECURSIVE EntryJobs(_, _)
EntryJobs(entryId, events) ==
    IF events = <<>> THEN <<>>
    ELSE LET job == eventToJob(entryId, Head(events))
             rest == EntryJobs(entryId, Tail(events))
         IN IF job # NoJob THEN <<job>> \o rest ELSE rest

RECURSIVE EntriesJobs(_)
EntriesJobs(entries) ==
    IF entries = <<>> THEN <<>>
    ELSE EntryJobs(Get(Head(entries), "id", "unknown_thread"),
                   Get(Head(entries), "messaging", <<>>))
         \o EntriesJobs(Tail(entries))

\* A mutant of extractJobs: the entries are walked from the last to the first.
extractJobsLastEntryFirst(payload) ==
    LET entries == Get(payload, "entry", <<>>) IN
    EntriesJobs([i \in 1..Len(entries) |-> entries[Len(entries) + 1 - i]])

extractJobs(payload) == EntriesJobs(Get(payload, "entry", <<>>))

\* ------------------------------------------ KeywordRulesService.generateDraft
NoDraft == [none |-> TRUE]

hasAny(text, keywords) == \E k \in keywords : Includes(text, k)

\* A mutant of RulesDraft: the order-support keywords are tried first.
RulesDraftOrderFirst(text) ==
    LET normalized == ToLowerCase(text) IN
    IF hasAny(normalized, {"order", "purchase", "invoice"})
    THEN [intent |-> "order_support", confidence |-> 88,
          reply |-> "reply:order", needs_human_approval |-> FALSE]
    ELSE IF hasAny(normalized, {"price", "how much", "cost"})
    THEN [intent |-> "pricing", confidence |-> 95,
          reply |-> "reply:pricing", needs_human_approval |-> FALSE]
    ELSE IF hasAny(normalized, {"refund", "return", "chargeback"})
    THEN [intent |-> "refund", confidence |-> 90,
          reply |-> "reply:refund", needs_human_approval |-> FALSE]
    ELSE IF hasAny(normalized, {"shipping", "delivery", "tracking"})
    THEN [intent |-> "shipping", confidence |-> 90,
          reply |-> "reply:shipping", needs_human_approval |-> FALSE]
    ELSE NoDraft

\* Confidence is in hundredths: 0.95 is 95.
RulesDraft(text) ==
    LET normalized == ToLowerCase(text) IN
    IF hasAny(normalized, {"price", "how much", "cost"})
    THEN [intent |-> "pricing", confidence |-> 95,
          reply |-> "reply:pricing", needs_human_approval |-> FALSE]
    ELSE IF hasAny(normalized, {"refund", "return", "chargeback"})
    THEN [intent |-> "refund", confidence |-> 90,
          reply |-> "reply:refund", needs_human_approval |-> FALSE]
    ELSE IF hasAny(normalized, {"shipping", "delivery", "tracking"})
    THEN [intent |-> "shipping", confidence |-> 90,
          reply |-> "reply:shipping", needs_human_approval |-> FALSE]
    ELSE IF hasAny(normalized, {"order", "purchase", "invoice"})
    THEN [intent |-> "order_support", confidence |-> 88,
          reply |-> "reply:order", needs_human_approval |-> FALSE]
    ELSE NoDraft

\* ------------------------------------------- OpenAiLlmService.generateDraft
\* The draft returned when the provider call or the parse of its answer fails.
FallbackDraft ==
    [intent |-> "unknown", confidence |-> 0,
     reply |-> "reply:fallback", needs_human_approval |-> TRUE]

\* What generateDraft can return: a draft that passed llmDraftSchema, or the
\* fallback.
LlmDrafts ==
    {FallbackDraft,
     [intent |-> "general_question", confidence |-> 60,
      reply |-> "reply:llm", needs_human_approval |-> FALSE],
     [intent |-> "general_question", confidence |-> 59,
      reply |-> "reply:llm", needs_human_approval |-> FALSE]}

\* The intents of intentSchema.
Intents ==
    {"general_question", "pricing", "order_support", "shipping", "refund", "unknown"}

\* llmDraftSchema.parse(value): whether the value passes (confidence is in
\* hundredths, so 0..1 is 0..100).
SchemaAccepts(value) ==
    /\ {"intent", "confidence", "reply", "needs_human_approval"} \subseteq DOMAIN value
    /\ value.intent \in Intents
    /\ value.confidence \in 0..100
    /\ Len(value.reply) >= 1
    /\ value.needs_human_approval \in BOOLEAN

\* What llmDraftSchema.parse returns: the four keys of the schema.
SchemaOutput(value) ==
    [intent |-> value.intent, confidence |-> value.confidence,
     reply |-> value.reply, needs_human_approval |-> value.needs_human_approval]

\* A mutant of generateDraft: the answer is used without the schema check.
generateDraftUnchecked(answer) ==
    IF answer.kind = "object"
       /\ {"intent", "confidence", "reply", "needs_human_approval"}
             \subseteq DOMAIN answer.parsed
    THEN SchemaOutput(answer.parsed)
    ELSE FallbackDraft

\* OpenAiLlmService.generateDraft, as a function of what the provider call
\* did: it threw (kind "error"), it returned content that is not JSON (kind
\* "malformed"), or content that parses to an object (kind "object"; a
\* completion without content parses to the empty object).
generateDraft(answer) ==
    IF answer.kind = "object" /\ SchemaAccepts(answer.parsed)
    THEN SchemaOutput(answer.parsed)
    ELSE FallbackDraft

\* The classifier has not been called.
NoAnswer == [kind |-> "none", parsed |-> <<>>]

\* The provider outcomes of the model.
LlmAnswers ==
    {[kind |-> "error", parsed |-> <<>>],
     [kind |-> "malformed", parsed |-> <<>>],
     [kind |-> "object", parsed |-> <<>>],
     [kind |-> "object",
      parsed |-> [intent |-> "spam", confidence |-> 90,
                  reply |-> "reply:llm", needs_human_approval |-> FALSE]],
     [kind |-> "object",
      parsed |-> [intent |-> "pricing", confidence |-> 150,
                  reply |-> "reply:llm", needs_human_approval |-> FALSE]],
     [kind |-> "object",
      parsed |-> [intent |-> "pricing", confidence |-> 90,
                  reply |-> "", needs_human_approval |-> FALSE]],
     [kind |-> "object",
      parsed |-> [intent |-> "pricing", confidence |-> 90, reply |-> "reply:llm"]],
     [kind |-> "object",
      parsed |-> [intent |-> "general_question", confidence |-> 60,
                  reply |-> "reply:llm", needs_human_approval |-> FALSE]],
     [kind |-> "object",
      parsed |-> [intent |-> "general_question", confidence |-> 59,
                  reply |-> "reply:llm", needs_human_approval |-> FALSE]],
     [kind |-> "object",
      parsed |-> [intent |-> "general_question", confidence |-> 90,
                  reply |-> "reply:llm", needs_human_approval |-> TRUE,
                  extra |-> "ignored"]]}

\* ------------------------------------------------------ contacts and policy
\* CONTACT_SEGMENTS, in display order.
CONTACT_SEGMENTS == <<"FRIEND", "KNOWN", "STRANGER", "VIP">>

\* A mutant of DEFAULT_POLICIES: FRIEND is given the values of KNOWN.
DEFAULT_POLICIES_FriendOpen ==
    [FRIEND |-> [autoSend |-> TRUE, requireHumanApproval |-> FALSE, template |-> "null"],
     KNOWN |-> [autoSend |-> TRUE, requireHumanApproval |-> FALSE, template |-> "null"],
     STRANGER |-> [autoSend |-> TRUE, requireHumanApproval |-> FALSE, template |-> "null"],
     VIP |-> [autoSend |-> FALSE, requireHumanApproval |-> TRUE, template |-> "null"]]

\* DEFAULT_POLICIES (a null template is the string "null").
DEFAULT_POLICIES ==
    [FRIEND |-> [autoSend |-> FALSE, requireHumanApproval |-> TRUE, template |-> "null"],
     KNOWN |-> [autoSend |-> TRUE, requireHumanApproval |-> FALSE, template |-> "null"],
     STRANGER |-> [autoSend |-> TRUE, requireHumanApproval |-> FALSE, template |-> "null"],
     VIP |-> [autoSend |-> FALSE, requireHumanApproval |-> TRUE, template |-> "null"]]

getDefaultPolicy(segment) == DEFAULT_POLICIES[segment]

\* The Contact table: the one labelled sender of the worker tests.
contactsBySender == [friend_sender |-> "FRIEND"]

\* The rows of the Contact table when the server starts.
ContactRows ==
    {[senderIgId |-> sender, segment |-> contactsBySender[sender]] :
        sender \in DOMAIN contactsBySender}

NoWorker == "none"
TestWorker == "testWorker"
WebhookWorker == "webhookWorker"

\* ------------------------------------------------------ InMemoryQueue.drain
\* A mutant of DrainGuard: lets one job more in than the limit.
DrainGuardOffByOne(q, n) == n <= concurrency /\ Len(q) > 0

\* The loop condition of drain().
DrainGuard(q, n) == n < concurrency /\ Len(q) > 0

\* A mutant of Shift: takes the newest job (pop) where the code takes the oldest.
ShiftNewest(q) == [job |-> q[Len(q)], rest |-> SubSeq(q, 1, Len(q) - 1)]

\* queue.shift(): the job taken, and what is left.
Shift(q) == [job |-> Head(q), rest |-> Tail(q)]

\* A mutant of DrainLoop: an `if` where the code has `while`.
DrainOnce(q, n, started) ==
    IF DrainGuard(q, n)
    THEN [queue |-> Shift(q).rest, inFlight |-> n + 1,
          started |-> Append(started, Shift(q).job)]
    ELSE [queue |-> q, inFlight |-> n, started |-> started]

\* The while loop of drain(): shifts jobs and starts them until the guard
\* fails.  (A job that is `undefined` would be skipped; jobs are objects.)
RECURSIVE DrainLoop(_, _, _)
DrainLoop(q, n, started) ==
    IF DrainGuard(q, n)
    THEN DrainLoop(Shift(q).rest, n + 1, Append(started, Shift(q).job))
    ELSE [queue |-> q, inFlight |-> n, started |-> started]

\* drain(): nothing without a registered worker.
Drain(w, q, n) ==
    IF w = NoWorker
    THEN [queue |-> q, inFlight |-> n, started |-> <<>>]
    ELSE DrainLoop(q, n, <<>>)

\* A mutant of EnqueueOne: unshift where the code has push.
EnqueueOneAtFront(w, q, n, job) == Drain(w, <<job>> \o q, n)

\* enqueue(job): push, then drain.
EnqueueOne(w, q, n, job) == Drain(w, Append(q, job), n)

\* Where a worker stands right after worker(job) was called: it has run to its
\* first await (the test worker: to the await of its own work; the webhook
\* worker: to the await of rawEvent.upsert).
StartPc(w) == IF w = WebhookWorker THEN "rawUpsert" ELSE "running"

NewRun(w, job) ==
    [job |-> job, pc |-> StartPc(w), path |-> "", inbound |-> "",
     draft |-> NoDraft, note |-> "", llm |-> NoAnswer]

\* The worker promise of invocation j has not settled yet.
Unsettled(j) == runs[j].pc \notin {"resolved", "rejected", "caught", "done"}

SeqToSet(s) == {s[i] : i \in 1..Len(s)}

JidsOf(s) == [i \in 1..Len(s) |-> s[i].jid]

\* The invocations `base` plus those of the jobs drain() started.
RunsAfter(w, base, started) ==
    LET new == SeqToSet(started) IN
    [j \in DOMAIN base \cup {x.jid : x \in new} |->
        IF j \in DOMAIN base THEN base[j]
        ELSE NewRun(w, CHOOSE x \in new : x.jid = j)]

\* The queue's state after a call that ended in the drain result d.
ApplyDrain(w, base, d) ==
    /\ queue' = d.queue
    /\ inFlight' = d.inFlight
    /\ runs' = RunsAfter(w, base, d.started)
    /\ dispatched' = dispatched \o JidsOf(d.started)

\* ------------------------------------------------------ InMemoryQueue API
\* A mutant of Start: the worker is registered and drain() is not called.
StartNoDrain ==
    /\ worker' = TestWorker
    /\ startJid' = IF worker = NoWorker THEN nextJid ELSE startJid
    /\ UNCHANGED <<queue, inFlight, runs, dispatched, concurrency, hasOnError,
                   nextJid, settledLog, onErrorCalls,
                   dbVars, httpVars, policyVars, otherVars>>

\* start(worker)
Start ==
    /\ worker' = TestWorker
    /\ ApplyDrain(TestWorker, runs, Drain(TestWorker, queue, inFlight))
    /\ startJid' = IF worker = NoWorker THEN nextJid ELSE startJid
    /\ UNCHANGED <<concurrency, hasOnError, nextJid, settledLog, onErrorCalls,
                   dbVars, httpVars, policyVars, otherVars>>

\* enqueue(job) with a fresh job object.
Enqueue ==
    /\ nextJid <= MaxJobs
    /\ nextJid' = nextJid + 1
    /\ ApplyDrain(worker, runs, EnqueueOne(worker, queue, inFlight, [jid |-> nextJid]))
    /\ UNCHANGED <<startJid, concurrency, hasOnError, worker, settledLog, onErrorCalls,
                   dbVars, httpVars, policyVars, otherVars>>

\* The worker's promise settles: the invocation's pc, path and note change.
Settle(j, pc, path, note) ==
    /\ runs' = [runs EXCEPT ![j].pc = pc, ![j].path = path, ![j].note = note]
    /\ settledLog' = Append(settledLog, j)

\* The test worker's promise resolves.
WorkerResolve(j) ==
    /\ runs[j].pc = "running"
    /\ Settle(j, "resolved", "ok", "")
    /\ UNCHANGED <<startJid, queue, concurrency, hasOnError, worker, inFlight, nextJid,
                   dispatched, onErrorCalls, dbVars, httpVars, policyVars, otherVars>>

\* The test worker throws: its promise rejects.
WorkerReject(j) ==
    /\ runs[j].pc = "running"
    /\ Settle(j, "rejected", "threw", "boom")
    /\ UNCHANGED <<startJid, queue, concurrency, hasOnError, worker, inFlight, nextJid,
                   dispatched, onErrorCalls, dbVars, httpVars, policyVars, otherVars>>

\* A mutant of OnErrorAfter: the failure is swallowed.
OnErrorNever(calls, j) == calls

\* The calls of the hook after onError?.(error, job).
OnErrorAfter(calls, j) ==
    IF hasOnError THEN Append(calls, [job |-> j, error |-> runs[j].note]) ELSE calls

\* .catch((error) => this.onError?.(error, job)) on a rejected promise.
CatchStep(j) ==
    /\ runs[j].pc = "rejected"
    /\ runs' = [runs EXCEPT ![j].pc = "caught"]
    /\ onErrorCalls' = OnErrorAfter(onErrorCalls, j)
    /\ UNCHANGED <<startJid, queue, concurrency, hasOnError, worker, inFlight, nextJid,
                   dispatched, settledLog, dbVars, httpVars, policyVars, otherVars>>

\* A mutant of Release: the slot of a settled job is never given back.
ReleaseNever(n) == n

\* A mutant of Release: the finally callback decrements twice.
ReleaseTwice(n) == n - 2

\* inFlight after the decrement of the finally callback.
Release(n) == n - 1

\* .finally(() => { this.inFlight -= 1; void this.drain(); })
FinallyStep(j) ==
    /\ runs[j].pc \in {"resolved", "caught"}
    /\ ApplyDrain(worker, [runs EXCEPT ![j].pc = "done"],
                  Drain(worker, queue, Release(inFlight)))
    /\ UNCHANGED <<startJid, concurrency, hasOnError, worker, nextJid, settledLog,
                   onErrorCalls, dbVars, httpVars, policyVars, otherVars>>

\* -------------------------------------------------- the queue on its own
InitQueue ==
    /\ queue = <<>>
    /\ concurrency \in 0..MaxConcurrency
    /\ hasOnError \in BOOLEAN
    /\ worker = NoWorker
    /\ inFlight = 0
    /\ runs = <<>>
    /\ nextJid = 1
    /\ dispatched = <<>>
    /\ settledLog = <<>>
    /\ onErrorCalls = <<>>
    /\ startJid = 0
    /\ rawEvents = {}
    /\ threads = {}
    /\ messages = {}
    /\ deliveryLogs = {}
    /\ sendCalls = {}
    /\ faults = 0
    /\ requests = <<>>
    /\ responses = <<>>
    /\ enqueued = <<>>
    /\ policies = {}
    /\ policyCalls = <<>>
    /\ pendingUpserts = {}
    /\ evaluated = <<>>
    /\ adminRuns = <<>>
    /\ process = "running"
    /\ contacts = ContactRows
    /\ contactRuns = <<>>

NextQueue ==
    \/ Start
    \/ Enqueue
    \/ \E j \in DOMAIN runs : WorkerResolve(j)
    \/ \E j \in DOMAIN runs : WorkerReject(j)
    \/ \E j \in DOMAIN runs : CatchStep(j)
    \/ \E j \in DOMAIN runs : FinallyStep(j)

SpecQueue == InitQueue /\ [][NextQueue]_vars

\* ------------------------------------------ the queue with a throwing hook
\* The hook has thrown for job j: the promise that .catch() returned is
\* rejected.
HookThrew(j) ==
    \E i \in 1..Len(onErrorCalls) : onErrorCalls[i].job = j /\ onErrorCalls[i].threw

\* .catch((error) => this.onError?.(error, job)) on a rejected promise, with
\* a hook that returns.
CatchReturns(j) ==
    /\ runs[j].pc = "rejected"
    /\ runs' = [runs EXCEPT ![j].pc = "caught"]
    /\ onErrorCalls' =
          IF hasOnError
          THEN Append(onErrorCalls, [job |-> j, error |-> runs[j].note, threw |-> FALSE])
          ELSE onErrorCalls
    /\ UNCHANGED <<startJid, queue, concurrency, hasOnError, worker, inFlight, nextJid,
                   dispatched, settledLog, dbVars, httpVars, policyVars, otherVars>>

\* The same callback, with a hook that throws: the promise that .catch()
\* returned is rejected with what the hook threw.
CatchThrows(j) ==
    /\ runs[j].pc = "rejected"
    /\ hasOnError
    /\ runs' = [runs EXCEPT ![j].pc = "caught"]
    /\ onErrorCalls' =
          Append(onErrorCalls, [job |-> j, error |-> runs[j].note, threw |-> TRUE])
    /\ UNCHANGED <<startJid, queue, concurrency, hasOnError, worker, inFlight, nextJid,
                   dispatched, settledLog, dbVars, httpVars, policyVars, otherVars>>

\* What the runtime does with a rejected promise nobody handles: it goes on
\* (a warning, or a listener for the event), or it ends the process (Node's
\* default, --unhandled-rejections=throw).
UnhandledOutcomes == {"running", "exited"}

\* The promise that .finally() returned is rejected with what the hook threw
\* and `void` has discarded it: once the finally callback of job j has run,
\* the runtime reports the unhandled rejection.
UnhandledRejection(j) ==
    /\ runs[j].pc = "done"
    /\ HookThrew(j)
    /\ runs[j].path = "threw"
    /\ \E outcome \in UnhandledOutcomes :
          /\ process' = outcome
          /\ runs' = [runs EXCEPT ![j].path = "unhandled"]
    /\ UNCHANGED <<startJid, queue, concurrency, hasOnError, worker, inFlight, nextJid,
                   dispatched, settledLog, onErrorCalls, dbVars, httpVars, policyVars,
                   evaluated, adminRuns, contactVars>>

Running == process = "running"

\* Nothing runs in a process that has exited.
NextQueueHook ==
    \/ Running /\ Start
    \/ Running /\ Enqueue
    \/ \E j \in DOMAIN runs : Running /\ WorkerResolve(j)
    \/ \E j \in DOMAIN runs : Running /\ WorkerReject(j)
    \/ \E j \in DOMAIN runs : Running /\ CatchReturns(j)
    \/ \E j \in DOMAIN runs : Running /\ CatchThrows(j)
    \/ \E j \in DOMAIN runs : Running /\ FinallyStep(j)
    \/ \E j \in DOMAIN runs : Running /\ UnhandledRejection(j)

SpecQueueHook == InitQueue /\ [][NextQueueHook]_vars

\* ------------------------------------------------------ the webhook inputs
AppSecret == "app_secret"

BusinessAccountId == "ig_biz_id"

\* request.body for each raw body of the model (JSON.parse of the raw body).
ParseBody ==
    [bodyEmpty |-> [object |-> "instagram"],
     bodyOne |->
        [object |-> "instagram",
         entry |-> <<
            [id |-> "e1",
             messaging |-> <<
                [sender |-> [username |-> "u5"], recipient |-> [id |-> "biz"],
                 message |-> [mid |-> "m5", text |-> "sender without id"]],
                [sender |-> [id |-> "u1"], recipient |-> [id |-> "biz"],
                 conversation |-> [id |-> "t1"],
                 message |-> [mid |-> "m1", text |-> "Price?"]] >>] >>],
     bodyMixed |->
        [object |-> "instagram",
         entry |-> <<
            [id |-> "e1",
             messaging |-> <<
                [sender |-> [id |-> "u1"], recipient |-> [id |-> "biz"],
                 message |-> [text |-> "no mid"]],
                [sender |-> [id |-> "u2"], recipient |-> [id |-> "biz"],
                 message |-> [mid |-> "m2", text |-> " \t"]],
                [recipient |-> [id |-> "biz"],
                 message |-> [mid |-> "m3", text |-> "no sender"]] >>],
            [messaging |-> <<
                [sender |-> [id |-> "u1"], recipient |-> [id |-> "biz"],
                 message |-> [mid |-> "", text |-> "empty mid"]],
                [sender |-> [id |-> "biz"], recipient |-> [id |-> "u1"],
                 message |-> [mid |-> "m4", text |-> "hello", is_echo |-> TRUE]],
                [sender |-> [id |-> "u1"], recipient |-> [id |-> "biz"]] >>],
            [id |-> "e3"] >>],
     bodyFriend |->
        [object |-> "instagram",
         entry |-> <<
            [id |-> "e1",
             messaging |-> <<
                [sender |-> [id |-> "friend_sender"], recipient |-> [id |-> "biz"],
                 message |-> [mid |-> "m6", text |-> "How much does this cost?"]],
                [sender |-> [id |-> "u3"], recipient |-> [id |-> "biz"],
                 message |-> [mid |-> "m7"]] >>] >>],
     bodyGates |->
        [object |-> "instagram",
         entry |-> <<
            [id |-> "e1",
             messaging |-> <<
                [sender |-> [id |-> "biz"], recipient |-> [id |-> "biz"],
                 message |-> [mid |-> "m8", text |-> " \t", is_echo |-> TRUE]],
                [sender |-> [id |-> "biz"], recipient |-> [id |-> "biz"],
                 message |-> [mid |-> "m8", text |-> " \t", is_echo |-> TRUE]],
                [sender |-> [id |-> "u4"], recipient |-> [id |-> "biz"],
                 message |-> [mid |-> "m9", text |-> "refund", is_echo |-> TRUE]] >>] >>],
     bodyClassify |->
        [object |-> "instagram",
         entry |-> <<
            [id |-> "e1",
             messaging |-> <<
                [sender |-> [id |-> "u6"], recipient |-> [id |-> "biz"],
                 message |-> [mid |-> "m10", text |-> "Where is my ORDER?"]],
                [sender |-> [id |-> "u7"], recipient |-> [id |-> "biz"],
                 message |-> [mid |-> "m11", text |-> "hello there"]] >>] >>],
     bodyReplay |->
        [object |-> "instagram",
         entry |-> <<
            [id |-> "e1",
             messaging |-> <<
                [sender |-> [id |-> "u1"], recipient |-> [id |-> "biz"],
                 message |-> [mid |-> "m1", text |-> "hello"]],
                [sender |-> [id |-> "u1"], recipient |-> [id |-> "biz"],
                 message |-> [mid |-> "m1", text |-> "hello"]] >>] >>]]

\* The webhook requests of the model: a raw body and the value of the
\* X-Hub-Signature-256 header.
Requests ==
    {[rawBody |-> b, signature |-> SignaturePrefix \o HmacHex(AppSecret, b)] :
        b \in {"bodyEmpty", "bodyOne", "bodyMixed", "bodyReplay"}}
    \cup
    {[rawBody |-> "bodyOne", signature |-> h] :
        h \in {Undefined,
               "sha1=" \o HmacHex(AppSecret, "bodyOne"),
               "sha256=not_valid",
               SignaturePrefix \o HmacHex(AppSecret, "bodyOther")}}

\* A signed delivery from a sender labelled FRIEND and from a sender whose
\* message has no text.
FriendRequests ==
    {[rawBody |-> "bodyFriend",
      signature |-> SignaturePrefix \o HmacHex(AppSecret, "bodyFriend")]}

\* A signed delivery of a blank echo, its duplicate, and an echo whose text
\* has a keyword.
GateRequests ==
    {[rawBody |-> "bodyGates",
      signature |-> SignaturePrefix \o HmacHex(AppSecret, "bodyGates")]}

\* A signed delivery of a message the rules answer and of one they do not.
ClassifyRequests ==
    {[rawBody |-> "bodyClassify",
      signature |-> SignaturePrefix \o HmacHex(AppSecret, "bodyClassify")]}

\* The webhook requests of the guardrail runs.
GuardrailRequests ==
    Requests \cup FriendRequests \cup GateRequests \cup ClassifyRequests

\* ------------------------------------------ POST /webhook/instagram handler
\* The for loop of the handler: queue.enqueue({...job, rawPayload}) for each
\* job in turn.  The job object gets the next identity.
RECURSIVE EnqueueAll(_, _, _, _, _, _)
EnqueueAll(w, q, n, jobs, jid, acc) ==
    IF jobs = <<>>
    THEN [queue |-> q, inFlight |-> n, started |-> acc.started, handed |-> acc.handed]
    ELSE LET job == [jid |-> jid] @@ Head(jobs)
             d == EnqueueOne(w, q, n, job)
         IN EnqueueAll(w, d.queue, d.inFlight, Tail(jobs), jid + 1,
                       [started |-> acc.started \o d.started,
                        handed |-> Append(acc.handed, job)])

\* The jobs the handler enqueues for a request: none unless the signature
\* verifies.
JobsToEnqueue(req) ==
    IF verifySignature(req.rawBody, req.signature, AppSecret)
    THEN LET payload == ParseBody[req.rawBody]
             jobs == extractJobs(payload)
         IN [i \in 1..Len(jobs) |-> jobs[i] @@ [rawPayload |-> req.rawBody]]
    ELSE <<>>

\* A mutant of ReplyCode: a background failure turns later replies into 500.
ReplyCodeAfterFailure(req) ==
    IF onErrorCalls # <<>> THEN 500
    ELSE IF verifySignature(req.rawBody, req.signature, AppSecret) THEN 200 ELSE 401

\* The status of the reply.
ReplyCode(req) ==
    IF verifySignature(req.rawBody, req.signature, AppSecret) THEN 200 ELSE 401

\* JobsToEnqueue and ReplyCode of every request of the model, evaluated once.
HandlerJobs == [req \in GuardrailRequests |-> JobsToEnqueue(req)]

HandlerReply == [req \in GuardrailRequests |-> ReplyCode(req)]

\* The handler runs from the signature check to reply.send() without an await.
Webhook(req) ==
    /\ Len(requests) < MaxRequests
    /\ nextJid + Len(HandlerJobs[req]) <= MaxJobs + 1
    /\ LET r == Len(requests) + 1
           e == EnqueueAll(worker, queue, inFlight, HandlerJobs[req], nextJid,
                           [started |-> <<>>, handed |-> <<>>])
       IN /\ requests' = Append(requests, req)
          /\ ApplyDrain(worker, runs, e)
          /\ nextJid' = nextJid + Len(e.handed)
          /\ enqueued' = enqueued \o [i \in 1..Len(e.handed) |->
                                         [request |-> r, job |-> e.handed[i]]]
          /\ responses' = Append(responses,
                [status |-> HandlerReply[req],
                 \* history: what had happened when the reply was sent
                 ownSettled |-> {j \in {x.jid : x \in SeqToSet(e.handed)} :
                                    j \in DOMAIN runs' /\ ~Unsettled(j)'},
                 failuresBefore |-> Len(onErrorCalls)])
    /\ UNCHANGED <<concurrency, hasOnError, worker, settledLog, onErrorCalls,
                   startJid, dbVars, policyVars, otherVars>>

\* ------------------------------------------------------ createWebhookWorker
\* The confidence gate, in hundredths (0.6).
ConfidenceGate == 60

\* Where the worker awaits a persistence call.
PersistencePcs ==
    {"rawUpsert", "findUnique", "threadUpsert", "createInbound", "skipLog",
     "update", "createOutbound", "logSent", "logError"}

\* The awaits inside the try block of the send step.
TryPcs == {"createOutbound", "logSent"}

\* A step of invocation j that stays inside the worker.
Goto(j, pc) == runs' = [runs EXCEPT ![j].pc = pc]

WorkerOnlyUnchanged ==
    UNCHANGED <<queue, concurrency, hasOnError, worker, inFlight, nextJid,
                dispatched, onErrorCalls, startJid, httpVars,
                policyVars, otherVars>>

\* Some Message has this igMessageId (the unique index of the table).
MessageExists(mid) == \E m \in messages : m.igMessageId = mid

\* const receivedAt = ...: the time taken from the job's timestamp, which
\* without a timestamp in the event is the clock when the handler made the
\* job; the clock reading during the r-th request is r.
ReceivedAt(j) ==
    enqueued[CHOOSE i \in 1..Len(enqueued) : enqueued[i].job.jid = j].request

\* The row rawEvent.upsert creates for job j.
NewRawEvent(j) ==
    [igMessageId |-> runs[j].job.messageId,
     payload |-> runs[j].job.rawPayload,
     receivedAt |-> ReceivedAt(j)]

\* A mutant of RawEventUpsert: the update part carries the payload and the
\* receipt time.
RawEventUpsertOverwriting(j) ==
    /\ runs[j].pc = "rawUpsert"
    /\ rawEvents' =
          {e \in rawEvents : e.igMessageId # runs[j].job.messageId}
             \cup {NewRawEvent(j)}
    /\ Goto(j, "findUnique")
    /\ UNCHANGED <<threads, messages, deliveryLogs, sendCalls, faults, settledLog>>
    /\ WorkerOnlyUnchanged

\* await prisma.rawEvent.upsert({where: {igMessageId}, update: {}, create})
RawEventUpsert(j) ==
    /\ runs[j].pc = "rawUpsert"
    /\ rawEvents' =
          IF \E e \in rawEvents : e.igMessageId = runs[j].job.messageId
          THEN rawEvents
          ELSE rawEvents \cup {NewRawEvent(j)}
    /\ Goto(j, "findUnique")
    /\ UNCHANGED <<threads, messages, deliveryLogs, sendCalls, faults, settledLog>>
    /\ WorkerOnlyUnchanged

\* A mutant of FindExisting: the dedupe check never finds anything.
FindNothing(mid) == FALSE

\* The result of message.findUnique({where: {igMessageId}}): whether a row was
\* found.
FindExisting(mid) == MessageExists(mid)

\* const existing = await prisma.message.findUnique(...); if (existing) return
FindUnique(j) ==
    /\ runs[j].pc = "findUnique"
    /\ IF FindExisting(runs[j].job.messageId)
       THEN Settle(j, "resolved", "duplicate", "")
       ELSE Goto(j, "threadUpsert") /\ UNCHANGED settledLog
    /\ UNCHANGED dbVars
    /\ WorkerOnlyUnchanged

\* await prisma.thread.upsert({where: {igThreadId}, update: {}, create})
ThreadUpsert(j) ==
    /\ runs[j].pc = "threadUpsert"
    /\ threads' = threads \cup {runs[j].job.threadId}
    /\ Goto(j, "createInbound")
    /\ UNCHANGED <<rawEvents, messages, deliveryLogs, sendCalls, faults, settledLog>>
    /\ WorkerOnlyUnchanged

\* The id the store generates for a Message: unique, here named after the job
\* and the direction.
MessageId(j, direction) == "message_" \o direction \o ToString(j)

\* The row a call of deliveryLog.create by job j adds.
NewLog(j, messageId, status, error) ==
    [id |-> [job |-> j, n |-> Cardinality({l \in deliveryLogs : l.by = j}) + 1],
     messageId |-> messageId, status |-> status, error |-> error, by |-> j]

\* The record of a call of ig.sendMessage by job j.
NewSend(j, recipient, text, ok) ==
    [n |-> Cardinality({c \in sendCalls : c.by = j}) + 1,
     recipient |-> recipient, text |-> text, by |-> j, ok |-> ok]

NewMessage(mid, threadId, senderIgId, direction, text, j) ==
    [id |-> MessageId(j, direction), igMessageId |-> mid, threadId |-> threadId, senderIgId |-> senderIgId,
     direction |-> direction, text |-> text, intent |-> "null",
     confidence |-> -1, suggestedReply |-> "null", needsHumanApproval |-> FALSE,
     by |-> j]

\* The unique index on Message.igMessageId: whether a create with this id is
\* refused (Prisma error P2002).
UniqueViolation(mid) == MessageExists(mid)

\* A mutant of AfterInbound: the text is compared with "" without trim().
AfterInboundNoTrim(job) ==
    IF job.text = ""
    THEN [pc |-> "skipLog", note |-> "Guardrail: empty message text", draft |-> NoDraft]
    ELSE IF job.isFromSelfOrSystem
    THEN [pc |-> "skipLog", note |-> "Guardrail: self/system message", draft |-> NoDraft]
    ELSE IF RulesDraft(job.text) # NoDraft
    THEN [pc |-> "update", note |-> "", draft |-> RulesDraft(job.text)]
    ELSE [pc |-> "llm", note |-> "", draft |-> NoDraft]

\* A mutant of AfterInbound: the self/system guardrail is missing.
AfterInboundNoSelfCheck(job) ==
    IF Trim(job.text) = ""
    THEN [pc |-> "skipLog", note |-> "Guardrail: empty message text", draft |-> NoDraft]
    ELSE IF RulesDraft(job.text) # NoDraft
    THEN [pc |-> "update", note |-> "", draft |-> RulesDraft(job.text)]
    ELSE [pc |-> "llm", note |-> "", draft |-> NoDraft]

\* A mutant of AfterInbound: the classifier is asked whatever the rules say.
AfterInboundModelAlways(job) ==
    IF Trim(job.text) = ""
    THEN [pc |-> "skipLog", note |-> "Guardrail: empty message text", draft |-> NoDraft]
    ELSE IF job.isFromSelfOrSystem
    THEN [pc |-> "skipLog", note |-> "Guardrail: self/system message", draft |-> NoDraft]
    ELSE [pc |-> "llm", note |-> "", draft |-> NoDraft]

\* What the worker does between the creation of the inbound Message and its
\* next await: the two guardrails, then rules.generateDraft.
AfterInbound(job) ==
    IF Trim(job.text) = ""
    THEN [pc |-> "skipLog", note |-> "Guardrail: empty message text", draft |-> NoDraft]
    ELSE IF job.isFromSelfOrSystem
    THEN [pc |-> "skipLog", note |-> "Guardrail: self/system message", draft |-> NoDraft]
    ELSE IF RulesDraft(job.text) # NoDraft
    THEN [pc |-> "update", note |-> "", draft |-> RulesDraft(job.text)]
    ELSE [pc |-> "llm", note |-> "", draft |-> NoDraft]

\* A mutant of InboundRefused: the refusal is swallowed and the job carries on
\* as if its Message had been stored.
InboundRefusedCarryOn(job) == AfterInbound(job)

\* Where the worker goes when the create of the inbound Message throws: no
\* try/catch surrounds it, so the worker's promise rejects.
InboundRefused(job) == [pc |-> "rejected", note |-> "P2002", draft |-> NoDraft]

\* const inbound = await prisma.message.create({data: {... direction: IN}})
CreateInbound(j) ==
    /\ runs[j].pc = "createInbound"
    /\ LET job == runs[j].job IN
       IF UniqueViolation(job.messageId)
       THEN /\ LET next == InboundRefused(job) IN
               IF next.pc = "rejected"
               THEN Settle(j, "rejected", "threw", next.note)
               ELSE /\ runs' = [runs EXCEPT ![j].pc = next.pc, ![j].note = next.note,
                                            ![j].draft = next.draft,
                                            ![j].inbound = MessageId(j, "IN")]
                    /\ UNCHANGED settledLog
            /\ UNCHANGED messages
       ELSE /\ messages' = messages \cup
                  {NewMessage(job.messageId, job.threadId, job.senderId, "IN",
                              job.text, j)}
            /\ LET next == AfterInbound(job) IN
               runs' = [runs EXCEPT ![j].pc = next.pc, ![j].note = next.note,
                                    ![j].draft = next.draft,
                                    ![j].inbound = MessageId(j, "IN")]
            /\ UNCHANGED settledLog
    /\ UNCHANGED <<rawEvents, threads, deliveryLogs, sendCalls, faults>>
    /\ WorkerOnlyUnchanged

\* createSkipLog(prisma, inbound.id, reason); return
SkipLog(j) ==
    /\ runs[j].pc = "skipLog"
    /\ deliveryLogs' = deliveryLogs \cup
          {NewLog(j, runs[j].inbound, "SKIPPED", runs[j].note)}
    /\ Settle(j, "resolved", "skipped", runs[j].note)
    /\ UNCHANGED <<rawEvents, threads, messages, sendCalls, faults>>
    /\ WorkerOnlyUnchanged

\* const draft = rulesDraft ?? (await llm.generateDraft(job.text)): the
\* classifier answers; it never throws.
LlmDraft(j, d) ==
    /\ runs[j].pc = "llm"
    /\ runs' = [runs EXCEPT ![j].pc = "update", ![j].draft = d]
    /\ UNCHANGED <<dbVars, settledLog>>
    /\ WorkerOnlyUnchanged

\* The same await, with the provider's outcome as the input: what the
\* provider did is kept with the invocation.
LlmCall(j, answer) ==
    /\ runs[j].pc = "llm"
    /\ runs' = [runs EXCEPT ![j].pc = "update", ![j].draft = generateDraft(answer),
                            ![j].llm = answer]
    /\ UNCHANGED <<dbVars, settledLog>>
    /\ WorkerOnlyUnchanged

\* A mutant of NeedsReview: the approval flag is not looked at.
NeedsReviewConfidenceOnly(draft) == draft.confidence < ConfidenceGate

\* The confidence/approval guardrail.
NeedsReview(draft) ==
    draft.confidence < ConfidenceGate \/ draft.needs_human_approval

\* A mutant of UpdateInbound: the update has no where clause and writes the
\* draft to every Message.
UpdateInboundAllRows(j) ==
    /\ runs[j].pc = "update"
    /\ LET d == runs[j].draft IN
       /\ messages' = {[m EXCEPT !.intent = d.intent,
                                  !.confidence = d.confidence,
                                  !.suggestedReply = d.reply,
                                  !.needsHumanApproval = d.needs_human_approval]
                        : m \in messages}
       /\ IF NeedsReview(d)
          THEN runs' = [runs EXCEPT ![j].pc = "skipLog",
                  ![j].note = "Guardrail: low confidence or human approval required"]
          ELSE Goto(j, "send")
    /\ UNCHANGED <<rawEvents, threads, deliveryLogs, sendCalls, faults, settledLog>>
    /\ WorkerOnlyUnchanged

\* A mutant of UpdateInbound: the draft is not written to the Message.
UpdateInboundNoWrite(j) ==
    /\ runs[j].pc = "update"
    /\ IF NeedsReview(runs[j].draft)
       THEN runs' = [runs EXCEPT ![j].pc = "skipLog",
               ![j].note = "Guardrail: low confidence or human approval required"]
       ELSE Goto(j, "send")
    /\ UNCHANGED <<dbVars, settledLog>>
    /\ WorkerOnlyUnchanged

\* await prisma.message.update({where: {id: inbound.id}, data: {...draft}}),
\* then the confidence/approval guardrail.
UpdateInbound(j) ==
    /\ runs[j].pc = "update"
    /\ LET d == runs[j].draft IN
       /\ messages' = {IF m.id = runs[j].inbound
                        THEN [m EXCEPT !.intent = d.intent,
                                       !.confidence = d.confidence,
                                       !.suggestedReply = d.reply,
                                       !.needsHumanApproval = d.needs_human_approval]
                        ELSE m : m \in messages}
       /\ IF NeedsReview(d)
          THEN runs' = [runs EXCEPT ![j].pc = "skipLog",
                  ![j].note = "Guardrail: low confidence or human approval required"]
          ELSE Goto(j, "send")
    /\ UNCHANGED <<rawEvents, threads, deliveryLogs, sendCalls, faults, settledLog>>
    /\ WorkerOnlyUnchanged

\* The id the platform gives the message sent for job j.
SentMessageId(j) == "out" \o ToString(j)

\* const send = await ig.sendMessage(job.senderId, draft.reply): it returns.
SendOk(j) ==
    /\ runs[j].pc = "send"
    /\ sendCalls' = sendCalls \cup
          {NewSend(j, runs[j].job.senderId, runs[j].draft.reply, TRUE)}
    /\ Goto(j, "createOutbound")
    /\ UNCHANGED <<rawEvents, threads, messages, deliveryLogs, faults, settledLog>>
    /\ WorkerOnlyUnchanged

\* toErrorMessage(error): the message of an Error, String(error) of anything
\* else (the other thrown values of the model are strings).
toErrorMessage(error) ==
    IF error.isError THEN error.message ELSE error.value

\* What ig.sendMessage throws in the model: an Error, or a bare string.
ThrownValues ==
    {[isError |-> TRUE, message |-> "Meta unavailable"],
     [isError |-> FALSE, value |-> "timeout"]}

\* A mutant of SendThrows: the send is not inside a try block, the worker's
\* promise rejects.
SendThrowsUncaught(j, error) ==
    /\ runs[j].pc = "send"
    /\ sendCalls' = sendCalls \cup
          {NewSend(j, runs[j].job.senderId, runs[j].draft.reply, FALSE)
              @@ [thrown |-> error]}
    /\ Settle(j, "rejected", "threw", toErrorMessage(error))
    /\ UNCHANGED <<rawEvents, threads, messages, deliveryLogs, faults>>
    /\ WorkerOnlyUnchanged

\* ig.sendMessage throws: the catch block takes over with the thrown value.
SendThrows(j, error) ==
    /\ runs[j].pc = "send"
    /\ sendCalls' = sendCalls \cup
          {NewSend(j, runs[j].job.senderId, runs[j].draft.reply, FALSE)
              @@ [thrown |-> error]}
    /\ runs' = [runs EXCEPT ![j].pc = "logError", ![j].note = toErrorMessage(error)]
    /\ UNCHANGED <<rawEvents, threads, messages, deliveryLogs, faults, settledLog>>
    /\ WorkerOnlyUnchanged

\* ig.sendMessage throws: the catch block takes over.
SendFails(j) ==
    /\ runs[j].pc = "send"
    /\ sendCalls' = sendCalls \cup
          {NewSend(j, runs[j].job.senderId, runs[j].draft.reply, FALSE)}
    /\ runs' = [runs EXCEPT ![j].pc = "logError", ![j].note = "send failed"]
    /\ UNCHANGED <<rawEvents, threads, messages, deliveryLogs, faults, settledLog>>
    /\ WorkerOnlyUnchanged

\* A mutant of CreateOutbound: the outbound Message is stored under the
\* customer's id.
CreateOutboundAsSender(j) ==
    /\ runs[j].pc = "createOutbound"
    /\ messages' = messages \cup
          {NewMessage(SentMessageId(j), runs[j].job.threadId,
                      runs[j].job.senderId, "OUT", runs[j].draft.reply, j)}
    /\ Goto(j, "logSent")
    /\ UNCHANGED <<rawEvents, threads, deliveryLogs, sendCalls, faults, settledLog>>
    /\ WorkerOnlyUnchanged

\* const outbound = await prisma.message.create({data: {... direction: OUT}})
CreateOutbound(j) ==
    /\ runs[j].pc = "createOutbound"
    /\ IF UniqueViolation(SentMessageId(j))
       THEN /\ runs' = [runs EXCEPT ![j].pc = "logError", ![j].note = "P2002"]
            /\ UNCHANGED messages
       ELSE /\ messages' = messages \cup
                  {NewMessage(SentMessageId(j), runs[j].job.threadId,
                              BusinessAccountId, "OUT", runs[j].draft.reply, j)}
            /\ Goto(j, "logSent")
    /\ UNCHANGED <<rawEvents, threads, deliveryLogs, sendCalls, faults, settledLog>>
    /\ WorkerOnlyUnchanged

\* A mutant of LogSent: the log is attached to the inbound Message.
LogSentOnInbound(j) ==
    /\ runs[j].pc = "logSent"
    /\ deliveryLogs' = deliveryLogs \cup
          {NewLog(j, runs[j].inbound, "SENT", "null")}
    /\ Settle(j, "resolved", "sent", "")
    /\ UNCHANGED <<rawEvents, threads, messages, sendCalls, faults>>
    /\ WorkerOnlyUnchanged

\* await prisma.deliveryLog.create({data: {messageId: outbound.id, status: SENT}})
LogSent(j) ==
    /\ runs[j].pc = "logSent"
    /\ deliveryLogs' = deliveryLogs \cup
          {NewLog(j, MessageId(j, "OUT"), "SENT", "null")}
    /\ Settle(j, "resolved", "sent", "")
    /\ UNCHANGED <<rawEvents, threads, messages, sendCalls, faults>>
    /\ WorkerOnlyUnchanged

\* A mutant of LogError: the catch block swallows the error without a log.
LogErrorSilent(j) ==
    /\ runs[j].pc = "logError"
    /\ Settle(j, "resolved", "sendError", runs[j].note)
    /\ UNCHANGED dbVars
    /\ WorkerOnlyUnchanged

\* catch (error) { await prisma.deliveryLog.create({data: {messageId:
\* inbound.id, status: ERROR, error: toErrorMessage(error)}}) }
LogError(j) ==
    /\ runs[j].pc = "logError"
    /\ deliveryLogs' = deliveryLogs \cup
          {NewLog(j, runs[j].inbound, "ERROR", runs[j].note)}
    /\ Settle(j, "resolved", "sendError", runs[j].note)
    /\ UNCHANGED <<rawEvents, threads, messages, sendCalls, faults>>
    /\ WorkerOnlyUnchanged

\* A mutant of PersistenceFails: the job's writes are one transaction, which
\* the failure rolls back.
PersistenceFailsRollingBack(j) ==
    /\ runs[j].pc \in PersistencePcs
    /\ faults < MaxFaults
    /\ faults' = faults + 1
    /\ IF runs[j].pc \in TryPcs
       THEN /\ runs' = [runs EXCEPT ![j].pc = "logError", ![j].note = "db unavailable"]
            /\ UNCHANGED <<settledLog, messages>>
       ELSE /\ Settle(j, "rejected", "threw", "db unavailable")
            /\ messages' = {m \in messages : m.by # j}
    /\ UNCHANGED <<rawEvents, threads, deliveryLogs, sendCalls>>
    /\ WorkerOnlyUnchanged

\* The persistence call the worker awaits fails (the store is unavailable):
\* inside the try block the catch block takes over, elsewhere the worker's
\* promise rejects.
PersistenceFails(j) ==
    /\ runs[j].pc \in PersistencePcs
    /\ faults < MaxFaults
    /\ faults' = faults + 1
    /\ IF runs[j].pc \in TryPcs
       THEN /\ runs' = [runs EXCEPT ![j].pc = "logError", ![j].note = "db unavailable"]
            /\ UNCHANGED settledLog
       ELSE Settle(j, "rejected", "threw", "db unavailable")
    /\ UNCHANGED <<rawEvents, threads, messages, deliveryLogs, sendCalls>>
    /\ WorkerOnlyUnchanged

\* --------------------------------------------------------- the whole server
\* The state after bootstrap(): the queue is constructed with an onError hook
\* and started with the webhook worker before the routes are registered.
Init ==
    /\ queue = <<>>
    /\ concurrency \in 1..MaxConcurrency
    /\ hasOnError = TRUE
    /\ worker = WebhookWorker
    /\ inFlight = 0
    /\ runs = <<>>
    /\ nextJid = 1
    /\ dispatched = <<>>
    /\ settledLog = <<>>
    /\ onErrorCalls = <<>>
    /\ startJid = 1
    /\ rawEvents = {}
    /\ threads = {}
    /\ messages = {}
    /\ deliveryLogs = {}
    /\ sendCalls = {}
    /\ faults = 0
    /\ requests = <<>>
    /\ responses = <<>>
    /\ enqueued = <<>>
    /\ policies = {}
    /\ policyCalls = <<>>
    /\ pendingUpserts = {}
    /\ evaluated = <<>>
    /\ adminRuns = <<>>
    /\ process = "running"
    /\ contacts = ContactRows
    /\ contactRuns = <<>>

Next ==
    \/ \E req \in Requests : Webhook(req)
    \/ \E j \in DOMAIN runs : RawEventUpsert(j)
    \/ \E j \in DOMAIN runs : FindUnique(j)
    \/ \E j \in DOMAIN runs : ThreadUpsert(j)
    \/ \E j \in DOMAIN runs : CreateInbound(j)
    \/ \E j \in DOMAIN runs : SkipLog(j)
    \/ \E j \in DOMAIN runs : \E d \in LlmDrafts : LlmDraft(j, d)
    \/ \E j \in DOMAIN runs : UpdateInbound(j)
    \/ \E j \in DOMAIN runs : SendOk(j)
    \/ \E j \in DOMAIN runs : SendFails(j)
    \/ \E j \in DOMAIN runs : CreateOutbound(j)
    \/ \E j \in DOMAIN runs : LogSent(j)
    \/ \E j \in DOMAIN runs : LogError(j)
    \/ \E j \in DOMAIN runs : CatchStep(j)
    \/ \E j \in DOMAIN runs : FinallyStep(j)

\* The server with a queue of any concurrency limit and a store that answers.
Spec == Init /\ [][Next]_vars

\* The server as bootstrap() configures it (concurrency: 1), with a store
\* whose calls may fail.
InitFaults == Init /\ concurrency = 1

NextFaults ==
    \/ \E req \in Requests : Webhook(req)
    \/ \E j \in DOMAIN runs : RawEventUpsert(j)
    \/ \E j \in DOMAIN runs : FindUnique(j)
    \/ \E j \in DOMAIN runs : ThreadUpsert(j)
    \/ \E j \in DOMAIN runs : CreateInbound(j)
    \/ \E j \in DOMAIN runs : SkipLog(j)
    \/ \E j \in DOMAIN runs : \E d \in LlmDrafts : LlmDraft(j, d)
    \/ \E j \in DOMAIN runs : UpdateInbound(j)
    \/ \E j \in DOMAIN runs : SendOk(j)
    \/ \E j \in DOMAIN runs : SendFails(j)
    \/ \E j \in DOMAIN runs : CreateOutbound(j)
    \/ \E j \in DOMAIN runs : LogSent(j)
    \/ \E j \in DOMAIN runs : LogError(j)
    \/ \E j \in DOMAIN runs : PersistenceFails(j)
    \/ \E j \in DOMAIN runs : CatchStep(j)
    \/ \E j \in DOMAIN runs : FinallyStep(j)

SpecFaults == InitFaults /\ [][NextFaults]_vars

\* The server as bootstrap() configures it, with a store that answers, with
\* the delivery of a labelled sender among its requests and with the
\* classifier's provider as the input of the classification step.
NextGuardrails ==
    \/ \E req \in GuardrailRequests : Webhook(req)
    \/ \E j \in DOMAIN runs : RawEventUpsert(j)
    \/ \E j \in DOMAIN runs : FindUnique(j)
    \/ \E j \in DOMAIN runs : ThreadUpsert(j)
    \/ \E j \in DOMAIN runs : CreateInbound(j)
    \/ \E j \in DOMAIN runs : SkipLog(j)
    \/ \E j \in DOMAIN runs : \E answer \in LlmAnswers : LlmCall(j, answer)
    \/ \E j \in DOMAIN runs : UpdateInbound(j)
    \/ \E j \in DOMAIN runs : SendOk(j)
    \/ \E j \in DOMAIN runs : \E error \in ThrownValues : SendThrows(j, error)
    \/ \E j \in DOMAIN runs : CreateOutbound(j)
    \/ \E j \in DOMAIN runs : LogSent(j)
    \/ \E j \in DOMAIN runs : LogError(j)
    \/ \E j \in DOMAIN runs : FinallyStep(j)

SpecGuardrails == InitFaults /\ [][NextGuardrails]_vars

\* ------------------------------------------------- the ReplyPolicy table
\* No row.
NoPolicy == [segment |-> "none"]

RowsOf(rows, segment) == {p \in rows : p.segment = segment}

SeqContains(seq, x) == \E i \in 1..Len(seq) : seq[i] = x

\* isContactSegment(value)
isContactSegment(value) == SeqContains(CONTACT_SEGMENTS, value)

\* A row with the fields of `update` written over it.
Updated(row, update) ==
    [f \in DOMAIN row |-> IF f \in DOMAIN update THEN update[f] ELSE row[f]]

\* replyPolicy.upsert({where: {segment}, update, create}): the table after
\* the call.  The store finds the row and updates it, or creates it, in one
\* step.
Upsert(rows, args) ==
    IF RowsOf(rows, args.segment) # {}
    THEN {IF p.segment = args.segment THEN Updated(p, args.update) ELSE p : p \in rows}
    ELSE rows \cup {args.create}

\* A mutant of ensurePolicyArgs: the update part carries the defaults.
ensurePolicyArgsResetting(segment) ==
    [segment |-> segment,
     update |-> [autoSend |-> getDefaultPolicy(segment).autoSend,
                 requireHumanApproval |-> getDefaultPolicy(segment).requireHumanApproval,
                 template |-> getDefaultPolicy(segment).template],
     create |-> [segment |-> segment,
                 autoSend |-> getDefaultPolicy(segment).autoSend,
                 requireHumanApproval |-> getDefaultPolicy(segment).requireHumanApproval,
                 template |-> getDefaultPolicy(segment).template]]

\* The arguments ensurePolicy gives to upsert: update {}, create the defaults.
ensurePolicyArgs(segment) ==
    [segment |-> segment,
     update |-> <<>>,
     create |-> [segment |-> segment,
                 autoSend |-> getDefaultPolicy(segment).autoSend,
                 requireHumanApproval |-> getDefaultPolicy(segment).requireHumanApproval,
                 template |-> getDefaultPolicy(segment).template]]

\* The bodies the operator posts to /admin/policy.
PolicyForms ==
    {[segment |-> " STRANGER ", requireHumanApproval |-> "on",
      template |-> " Custom stranger policy "],
     [segment |-> "FRIEND", autoSend |-> "on", template |-> "  "],
     [segment |-> "VIP", autoSend |-> "on", requireHumanApproval |-> "on"],
     [segment |-> "NOT_A_SEGMENT", autoSend |-> "on"],
     [autoSend |-> "on"]}

\* The segment the route reads from the body: request.body?.segment?.trim()
FormSegment(body) ==
    IF "segment" \in DOMAIN body THEN Trim(body.segment) ELSE Undefined

\* The values the route writes, in update and in create alike.
FormValues(body) ==
    LET template == Trim(Get(body, "template", "")) IN
    [autoSend |-> Get(body, "autoSend", Undefined) = "on",
     requireHumanApproval |-> Get(body, "requireHumanApproval", Undefined) = "on",
     template |-> IF Len(template) > 0 THEN template ELSE "null"]

\* A call is recorded when it is made; the upserts it issued are recorded as
\* the store executes them.
NewPolicyCall(kind) == [kind |-> kind, results |-> {}, returned |-> <<>>]

PolicyUnchanged == UNCHANGED <<queueVars, dbVars, httpVars, otherVars>>

\* ensurePolicy(prisma, segment) is called: the upsert is issued.
CallEnsurePolicy(segment) ==
    /\ Len(policyCalls) < MaxPolicyCalls
    /\ policyCalls' = Append(policyCalls, NewPolicyCall("ensurePolicy"))
    /\ pendingUpserts' = pendingUpserts \cup
          {[call |-> Len(policyCalls) + 1, args |-> ensurePolicyArgs(segment)]}
    /\ UNCHANGED policies
    /\ PolicyUnchanged

\* ensureAllPolicies(prisma) is called: CONTACT_SEGMENTS.map issues the four
\* upserts.
CallEnsureAllPolicies ==
    /\ Len(policyCalls) < MaxPolicyCalls
    /\ policyCalls' = Append(policyCalls, NewPolicyCall("ensureAllPolicies"))
    /\ pendingUpserts' = pendingUpserts \cup
          {[call |-> Len(policyCalls) + 1, args |-> ensurePolicyArgs(CONTACT_SEGMENTS[i])] :
              i \in 1..Len(CONTACT_SEGMENTS)}
    /\ UNCHANGED policies
    /\ PolicyUnchanged

\* POST /admin/policy: 400 without a valid segment, else the upsert is issued
\* with the form's values.
PostPolicy(body) ==
    /\ Len(policyCalls) < MaxPolicyCalls
    /\ LET segment == FormSegment(body) IN
       IF Falsy(segment) \/ ~isContactSegment(segment)
       THEN /\ policyCalls' = Append(policyCalls,
                   [NewPolicyCall("postPolicy") EXCEPT !.returned = <<400>>])
            /\ UNCHANGED pendingUpserts
       ELSE /\ policyCalls' = Append(policyCalls, NewPolicyCall("postPolicy"))
            /\ pendingUpserts' = pendingUpserts \cup
                  {[call |-> Len(policyCalls) + 1,
                    args |-> [segment |-> segment,
                              update |-> FormValues(body),
                              create |-> [segment |-> segment] @@ FormValues(body)]]}
    /\ UNCHANGED policies
    /\ PolicyUnchanged

\* The rows of `results`, in the order of CONTACT_SEGMENTS (the sort of
\* ensureAllPolicies; the segments of the results are distinct).
RECURSIVE InDisplayOrder(_, _)
InDisplayOrder(results, i) ==
    IF i > Len(CONTACT_SEGMENTS) THEN <<>>
    ELSE (IF \E r \in results : r.returned.segment = CONTACT_SEGMENTS[i]
          THEN <<(CHOOSE r \in results : r.returned.segment = CONTACT_SEGMENTS[i]).returned>>
          ELSE <<>>)
         \o InDisplayOrder(results, i + 1)

\* The store executes a pending upsert; the caller gets the row.  The last
\* of the upserts of ensureAllPolicies lets it sort and return the rows.
ExecUpsert(u) ==
    /\ u \in pendingUpserts
    /\ LET after == Upsert(policies, u.args)
           before == RowsOf(policies, u.args.segment)
           returned == CHOOSE p \in after : p.segment = u.args.segment
           result == [segment |-> u.args.segment,
                      before |-> IF before = {} THEN NoPolicy
                                 ELSE CHOOSE p \in before : TRUE,
                      returned |-> returned,
                      stored |-> RowsOf(after, u.args.segment)]
           call == policyCalls[u.call]
           results == call.results \cup {result}
           last == \A v \in pendingUpserts : v.call = u.call => v = u
       IN /\ policies' = after
          /\ policyCalls' = [policyCalls EXCEPT ![u.call] =
                [kind |-> call.kind, results |-> results,
                 returned |-> IF ~last THEN <<>>
                              ELSE IF call.kind = "postPolicy" THEN <<302>>
                              ELSE InDisplayOrder(results, 1)]]
    /\ pendingUpserts' = pendingUpserts \ {u}
    /\ PolicyUnchanged

NextPolicy ==
    \/ \E i \in 1..Len(CONTACT_SEGMENTS) : CallEnsurePolicy(CONTACT_SEGMENTS[i])
    \/ CallEnsureAllPolicies
    \/ \E body \in PolicyForms : PostPolicy(body)
    \/ \E u \in pendingUpserts : ExecUpsert(u)

\* The policy service and the operator's policy route over one store.
SpecPolicy == Init /\ [][NextPolicy]_vars

\* ------------------------------------------- the pure functions, applied
\* String.prototype.toUpperCase
RECURSIVE ToUpperCase(_)
ToUpperCase(s) ==
    IF Len(s) = 0 THEN s
    ELSE (IF \E i \in 1..26 : LowerChars[i] = SubSeq(s, 1, 1)
          THEN UpperChars[CHOOSE i \in 1..26 : LowerChars[i] = SubSeq(s, 1, 1)]
          ELSE SubSeq(s, 1, 1))
         \o ToUpperCase(SubSeq(s, 2, Len(s)))

\* The secrets and the raw bodies verifySignature is called with.
VerifySecrets == {"app_secret", "other_secret"}

VerifyBodies == {"bodyOne", "bodyOther"}

\* sign(rawBody, appSecret) of the tests: the header a sender holding the
\* secret computes.
sign(rawBody, appSecret) == SignaturePrefix \o HmacHex(appSecret, rawBody)

\* The values of the X-Hub-Signature-256 header: absent, empty, without the
\* prefix, and the prefix followed by text that is or is not the digest of
\* one of the bodies under one of the secrets.
VerifyHeaders ==
    {Undefined, "", "abc123", "sha256=", "sha256=zzzz", "sha256=5e", "sha256=5ezz"}
    \cup UNION {
        LET hex == HmacHex(secret, body) IN
        {sign(body, secret),
         hex,
         "sha1=" \o hex,
         "SHA256=" \o hex,
         " " \o SignaturePrefix \o hex,
         SignaturePrefix \o ToUpperCase(hex),
         SignaturePrefix \o " " \o hex,
         SignaturePrefix \o hex \o "\n",
         SignaturePrefix \o hex \o "zz",
         SignaturePrefix \o hex \o "0",
         SignaturePrefix \o hex \o "00",
         SignaturePrefix \o "zz" \o hex,
         SignaturePrefix \o SubSeq(hex, 1, 2) \o " " \o SubSeq(hex, 3, 4)}
        : secret \in VerifySecrets, body \in VerifyBodies}

EvaluatedUnchanged ==
    UNCHANGED <<queueVars, dbVars, httpVars, policyVars, adminRuns, process, contactVars>>

\* verifySignature(rawBody, headerSignature, appSecret) is called.
VerifyCall(rawBody, headerSignature, appSecret) ==
    /\ Len(evaluated) < MaxVerifyCalls
    /\ evaluated' = Append(evaluated,
          [fn |-> "verifySignature",
           rawBody |-> rawBody,
           headerSignature |-> headerSignature,
           appSecret |-> appSecret,
           result |-> verifySignature(rawBody, headerSignature, appSecret)])
    /\ EvaluatedUnchanged

NextVerify ==
    \E rawBody \in VerifyBodies, headerSignature \in VerifyHeaders,
       appSecret \in VerifySecrets :
          VerifyCall(rawBody, headerSignature, appSecret)

\* verifySignature on its own.
SpecVerify == InitFaults /\ [][NextVerify]_vars

\* The words the texts given to the rules are made of: the keywords, in
\* lower case or not, and words that are no keyword.
RulesWords ==
    {"price", "how much", "cost", "refund", "return", "chargeback",
     "shipping", "delivery", "tracking", "order", "purchase", "invoice",
     "PRICE", "Refund", "Tracking", "ORDER", "hello", "pric", "reorder"}

\* The words put together in pairs: keywords of every set, in lower case
\* or not, and words that are no keyword.
RulesPairWords ==
    {"price", "how much", "refund", "chargeback", "shipping", "tracking",
     "order", "invoice", "PRICE", "Refund", "hello", "reorder"}

\* The texts: those of the tests, the empty text, one word, and two words
\* with a space between.
RulesTexts ==
    {"How much does this cost?", "I need a refund for my purchase",
     "Can you share shipping updates?", "My order invoice has an issue",
     "Nice weather today.", ""}
    \cup RulesWords
    \cup {a \o " " \o b : a \in RulesPairWords, b \in RulesPairWords}

\* rules.generateDraft(text) is called.
RulesCall(text) ==
    /\ Len(evaluated) < MaxRulesCalls
    /\ evaluated' = Append(evaluated,
          [fn |-> "rules.generateDraft", text |-> text, result |-> RulesDraft(text)])
    /\ EvaluatedUnchanged

NextRules == \E text \in RulesTexts : RulesCall(text)

\* KeywordRulesService.generateDraft on its own.
SpecRules == InitFaults /\ [][NextRules]_vars

\* ------------------------------------------------------ POST /admin/send
\* The bodies the operator posts: messageId and reply, either of which may
\* be missing or empty.  The ids are those of the Messages the worker
\* stores for the first job, and one that no Message has.
AdminSendBodies ==
    {[messageId |-> id, reply |-> reply] :
        id \in {MessageId(1, "IN"), MessageId(1, "OUT"), "missing_id", ""},
        reply \in {" Manual reply text ", "  "}}
    \cup {[messageId |-> MessageId(1, "IN")], [reply |-> "test"]}

\* Rows written for the k-th /admin/send request carry by = -k, rows written
\* by worker invocation j carry by = j.
AdminBy(k) == 0 - k

AdminUnchanged ==
    UNCHANGED <<queueVars, httpVars, policyVars, evaluated, process, contactVars>>

AdminGoto(k, pc) == adminRuns' = [adminRuns EXCEPT ![k].pc = pc]

AdminReply(k, status) ==
    adminRuns' = [adminRuns EXCEPT ![k].pc = "done", ![k].status = status]

\* The handler runs to the await of message.findUnique, or replies 400.
AdminSend(body) ==
    /\ Len(adminRuns) < MaxAdminSends
    /\ LET messageId == Get(body, "messageId", Undefined)
           replyText == IF "reply" \in DOMAIN body THEN Trim(body.reply) ELSE Undefined
           run == [messageId |-> messageId, replyText |-> replyText,
                   pc |-> "findUnique", status |-> 0, lookup |-> "",
                   inbound |-> <<>>, note |-> ""]
       IN adminRuns' = Append(adminRuns,
             IF Falsy(messageId) \/ Falsy(replyText)
             THEN [run EXCEPT !.pc = "done", !.status = 400]
             ELSE run)
    /\ UNCHANGED dbVars
    /\ AdminUnchanged

\* A mutant of AdminInboundMissing: the direction of the Message is not
\* looked at.
AdminInboundMissingAnyDirection(found) == found = {}

\* !inbound || inbound.direction !== MessageDirection.IN
AdminInboundMissing(found) ==
    found = {} \/ \E m \in found : m.direction # "IN"

\* const inbound = await prisma.message.findUnique({where: {id: messageId}}),
\* then 404, or on to the await of ig.sendMessage.
AdminFind(k) ==
    /\ adminRuns[k].pc = "findUnique"
    /\ LET found == {m \in messages : m.id = adminRuns[k].messageId}
           lookup == IF found = {} THEN "none"
                     ELSE (CHOOSE m \in found : TRUE).direction
       IN IF AdminInboundMissing(found)
          THEN adminRuns' = [adminRuns EXCEPT ![k].pc = "done", ![k].status = 404,
                                              ![k].lookup = lookup]
          ELSE adminRuns' = [adminRuns EXCEPT ![k].pc = "send", ![k].lookup = lookup,
                                              ![k].inbound = CHOOSE m \in found : TRUE]
    /\ UNCHANGED dbVars
    /\ AdminUnchanged

\* The record of a call of ig.sendMessage by the k-th request.
AdminNewSend(k, ok) ==
    [n |-> 1, recipient |-> adminRuns[k].inbound.senderIgId,
     text |-> adminRuns[k].replyText, by |-> AdminBy(k), ok |-> ok]

\* const send = await deps.ig.sendMessage(inbound.senderIgId, replyText)
AdminSendOk(k) ==
    /\ adminRuns[k].pc = "send"
    /\ sendCalls' = sendCalls \cup {AdminNewSend(k, TRUE)}
    /\ AdminGoto(k, "createOutbound")
    /\ UNCHANGED <<rawEvents, threads, messages, deliveryLogs, faults>>
    /\ AdminUnchanged

\* ig.sendMessage throws: the catch block takes over with the thrown value.
AdminSendThrows(k, error) ==
    /\ adminRuns[k].pc = "send"
    /\ sendCalls' = sendCalls \cup {AdminNewSend(k, FALSE) @@ [thrown |-> error]}
    /\ adminRuns' = [adminRuns EXCEPT ![k].pc = "logError",
                                        ![k].note = toErrorMessage(error)]
    /\ UNCHANGED <<rawEvents, threads, messages, deliveryLogs, faults>>
    /\ AdminUnchanged

\* The id the store gives the outbound Message of the k-th request.
AdminOutboundId(k) == "message_OUT_manual" \o ToString(k)

\* const outbound = await prisma.message.create({data: {... direction: OUT}});
\* send.messageId is new on every send.
AdminCreateOutbound(k) ==
    /\ adminRuns[k].pc = "createOutbound"
    /\ messages' = messages \cup
          {[id |-> AdminOutboundId(k),
            igMessageId |-> "out_manual" \o ToString(k),
            threadId |-> adminRuns[k].inbound.threadId,
            senderIgId |-> BusinessAccountId,
            direction |-> "OUT",
            text |-> adminRuns[k].replyText,
            intent |-> "null", confidence |-> -1, suggestedReply |-> "null",
            needsHumanApproval |-> FALSE,
            by |-> AdminBy(k)]}
    /\ AdminGoto(k, "logSent")
    /\ UNCHANGED <<rawEvents, threads, deliveryLogs, sendCalls, faults>>
    /\ AdminUnchanged

AdminNewLog(k, messageId, status, error) ==
    [id |-> [admin |-> k, n |-> Cardinality({l \in deliveryLogs : l.by = AdminBy(k)}) + 1],
     messageId |-> messageId, status |-> status, error |-> error, by |-> AdminBy(k)]

\* A mutant of AdminLogSent: the ERROR_MANUAL entries of the inbound Message
\* are removed once a manual send has succeeded.
AdminLogSentClearingErrors(k) ==
    /\ adminRuns[k].pc = "logSent"
    /\ deliveryLogs' =
          {l \in deliveryLogs :
              ~(l.status = "ERROR_MANUAL" /\ l.messageId = adminRuns[k].inbound.id)}
             \cup {AdminNewLog(k, AdminOutboundId(k), "SENT_MANUAL", "null")}
    /\ AdminReply(k, 302)
    /\ UNCHANGED <<rawEvents, threads, messages, sendCalls, faults>>
    /\ AdminUnchanged

\* await prisma.deliveryLog.create({data: {messageId: outbound.id, status:
\* "SENT_MANUAL"}}); return reply.redirect("/admin")
AdminLogSent(k) ==
    /\ adminRuns[k].pc = "logSent"
    /\ deliveryLogs' = deliveryLogs \cup
          {AdminNewLog(k, AdminOutboundId(k), "SENT_MANUAL", "null")}
    /\ AdminReply(k, 302)
    /\ UNCHANGED <<rawEvents, threads, messages, sendCalls, faults>>
    /\ AdminUnchanged

\* catch (error) { await prisma.deliveryLog.create({data: {messageId:
\* inbound.id, status: "ERROR_MANUAL", error: toErrorMessage(error)}});
\* return reply.code(500) }
AdminLogError(k) ==
    /\ adminRuns[k].pc = "logError"
    /\ deliveryLogs' = deliveryLogs \cup
          {AdminNewLog(k, adminRuns[k].inbound.id, "ERROR_MANUAL", adminRuns[k].note)}
    /\ AdminReply(k, 500)
    /\ UNCHANGED <<rawEvents, threads, messages, sendCalls, faults>>
    /\ AdminUnchanged

\* The delivery whose Messages the operator acts on: one message that the
\* rules answer.
AdminSeedRequests == {[rawBody |-> "bodyOne", signature |-> sign("bodyOne", AppSecret)]}

\* The server with a store that answers, the worker at work on the delivery
\* (or on its replay) and the operator posting to /admin/send meanwhile.
NextAdmin ==
    \/ \E req \in AdminSeedRequests : Webhook(req)
    \/ \E j \in DOMAIN runs : RawEventUpsert(j)
    \/ \E j \in DOMAIN runs : FindUnique(j)
    \/ \E j \in DOMAIN runs : ThreadUpsert(j)
    \/ \E j \in DOMAIN runs : CreateInbound(j)
    \/ \E j \in DOMAIN runs : UpdateInbound(j)
    \/ \E j \in DOMAIN runs : SendOk(j)
    \/ \E j \in DOMAIN runs : \E error \in ThrownValues : SendThrows(j, error)
    \/ \E j \in DOMAIN runs : CreateOutbound(j)
    \/ \E j \in DOMAIN runs : LogSent(j)
    \/ \E j \in DOMAIN runs : LogError(j)
    \/ \E j \in DOMAIN runs : FinallyStep(j)
    \/ \E body \in AdminSendBodies : AdminSend(body)
    \/ \E k \in DOMAIN adminRuns : AdminFind(k)
    \/ \E k \in DOMAIN adminRuns : AdminSendOk(k)
    \/ \E k \in DOMAIN adminRuns : \E error \in ThrownValues : AdminSendThrows(k, error)
    \/ \E k \in DOMAIN adminRuns : AdminCreateOutbound(k)
    \/ \E k \in DOMAIN adminRuns : AdminLogSent(k)
    \/ \E k \in DOMAIN adminRuns : AdminLogError(k)

SpecAdmin == InitFaults /\ [][NextAdmin]_vars

\* ------------------------------------- the contact-segment endpoints
\* The two routes that label a sender, with the status of their success reply.
ContactRoutes ==
    [admin |-> [path |-> "/admin/contact-segment", ok |-> 302],
     api   |-> [path |-> "/api/app/contact-segment", ok |-> 200]]

\* The bodies the operator posts: senderIgId and segment, padded or not, a
\* segment that is no segment, and a body without senderIgId.
ContactBodies ==
    {[senderIgId |-> " u1 ", segment |-> " VIP "],
     [senderIgId |-> "friend_sender", segment |-> "KNOWN"],
     [senderIgId |-> "u1", segment |-> "NOT_A_SEGMENT"],
     [segment |-> "VIP"]}

ContactUnchanged ==
    UNCHANGED <<queueVars, dbVars, httpVars, policyVars, evaluated, adminRuns, process>>

\* request.body?.f?.trim()
TrimmedField(body, f) == IF f \in DOMAIN body THEN Trim(body[f]) ELSE Undefined

\* A mutant of ContactRefused: the segment name is not checked.
ContactRefusedAnySegment(senderIgId, segment) == Falsy(senderIgId) \/ Falsy(segment)

\* !senderIgId || !segment || !isContactSegment(segment)
ContactRefused(senderIgId, segment) ==
    Falsy(senderIgId) \/ Falsy(segment) \/ ~isContactSegment(segment)

\* The handler of either route runs to the await of contact.upsert, or
\* replies 400.
PostContactSegment(route, body) ==
    /\ Len(contactRuns) < MaxContactPosts
    /\ LET senderIgId == TrimmedField(body, "senderIgId")
           segment == TrimmedField(body, "segment")
           run == [route |-> route, senderIgId |-> senderIgId, segment |-> segment,
                   pc |-> "upsert", status |-> 0, before |-> contacts]
       IN contactRuns' = Append(contactRuns,
             IF ContactRefused(senderIgId, segment)
             THEN [run EXCEPT !.pc = "done", !.status = 400]
             ELSE run)
    /\ UNCHANGED contacts
    /\ ContactUnchanged

\* await prisma.contact.upsert({where: {senderIgId}, update: {segment},
\* create: {senderIgId, segment}}), then the reply.
ContactUpsert(k) ==
    /\ contactRuns[k].pc = "upsert"
    /\ contacts' =
          {c \in contacts : c.senderIgId # contactRuns[k].senderIgId}
             \cup {[senderIgId |-> contactRuns[k].senderIgId,
                    segment |-> contactRuns[k].segment]}
    /\ contactRuns' = [contactRuns EXCEPT ![k].pc = "done",
                          ![k].status = ContactRoutes[contactRuns[k].route].ok,
                          ![k].before = contacts]
    /\ ContactUnchanged

\* The deliveries at work while the operator labels senders: a message of
\* a sender with no Contact, and one of the labelled sender.
ContactSeedRequests == AdminSeedRequests \cup FriendRequests

\* The server with a store that answers, the worker at work and the
\* operator posting to the contact-segment routes meanwhile.
NextContacts ==
    \/ \E req \in ContactSeedRequests : Webhook(req)
    \/ \E j \in DOMAIN runs : RawEventUpsert(j)
    \/ \E j \in DOMAIN runs : FindUnique(j)
    \/ \E j \in DOMAIN runs : ThreadUpsert(j)
    \/ \E j \in DOMAIN runs : CreateInbound(j)
    \/ \E j \in DOMAIN runs : SkipLog(j)
    \/ \E j \in DOMAIN runs : UpdateInbound(j)
    \/ \E j \in DOMAIN runs : SendOk(j)
    \/ \E j \in DOMAIN runs : SendFails(j)
    \/ \E j \in DOMAIN runs : CreateOutbound(j)
    \/ \E j \in DOMAIN runs : LogSent(j)
    \/ \E j \in DOMAIN runs : LogError(j)
    \/ \E j \in DOMAIN runs : FinallyStep(j)
    \/ \E route \in DOMAIN ContactRoutes : \E body \in ContactBodies :
          PostContactSegment(route, body)
    \/ \E k \in DOMAIN contactRuns : ContactUpsert(k)

SpecContacts == InitFaults /\ [][NextContacts]_vars

\* Fairness for the queue on its own: a worker invocation eventually settles,
\* and the microtasks of a settled promise (catch, finally) eventually run.
FairSpecQueue ==
    /\ SpecQueue
    /\ \A j \in 1..MaxJobs :
          /\ WF_vars(j \in DOMAIN runs /\ (WorkerResolve(j) \/ WorkerReject(j)))
          /\ WF_vars(j \in DOMAIN runs /\ CatchStep(j))
          /\ WF_vars(j \in DOMAIN runs /\ FinallyStep(j))

\* ------------------------------------------------------------------ claims
\* s lists 1, 2, 3, ...: jobs get their jid in enqueue order, so this is "s is
\* in enqueue order, with no job left out".
InEnqueueOrder(s) == \A i \in 1..Len(s) : s[i] = i

\* The jobs of s, in order, whose failure has been handled by the catch callback.
RECURSIVE Reported(_)
Reported(s) ==
    IF s = <<>> THEN <<>>
    ELSE IF runs[Head(s)].path = "threw" /\ runs[Head(s)].pc \in {"caught", "done"}
         THEN <<Head(s)>> \o Reported(Tail(s))
         ELSE Reported(Tail(s))

Occurrences(s, x) == Cardinality({i \in 1..Len(s) : s[i] = x})

\* C4: with concurrency limit 1, the order in which the worker is invoked on
\* jobs and the order in which the jobs complete are both the enqueue order,
\* whether the jobs were enqueued before or after start().
C4_FifoAtConcurrencyOne ==
    concurrency = 1 => InEnqueueOrder(dispatched) /\ InEnqueueOrder(settledLog)

\* C4 witness: at limit 1, a job enqueued before start() and one enqueued
\* after it have completed, and a third one waits behind a running one.
C4_Witness ==
    /\ concurrency = 1
    /\ Len(settledLog) >= 2
    /\ startJid = 2
    /\ Len(dispatched) >= 3

\* C5: the worker invocations started and not yet settled never outnumber the
\* concurrency limit.
C5_ConcurrencyBound ==
    Cardinality({j \in DOMAIN runs : Unsettled(j)}) <= concurrency

\* C5 witness: the limit of 2 is reached while another job waits.
C5_Witness ==
    /\ concurrency = 2
    /\ Cardinality({j \in DOMAIN runs : Unsettled(j)}) = 2
    /\ Len(queue) >= 1

\* C6: a failed job is reported to onError exactly once, with its error; it is
\* never queued or dispatched again; the slot it held is given back, so jobs
\* still pending keep being dispatched; and at limit 1 the hook calls come in
\* the order the failing jobs were processed.
C6_ErrorIsolation ==
    /\ hasOnError =>
          \A j \in DOMAIN runs :
             LET calls == {i \in 1..Len(onErrorCalls) : onErrorCalls[i].job = j} IN
             IF runs[j].path = "threw" /\ runs[j].pc \in {"caught", "done"}
             THEN /\ Cardinality(calls) = 1
                  /\ \A i \in calls : onErrorCalls[i].error = runs[j].note
             ELSE calls = {}
    /\ \A j \in DOMAIN runs :
          /\ Occurrences(dispatched, j) = 1
          /\ \A i \in 1..Len(queue) : queue[i].jid # j
    /\ inFlight = Cardinality({j \in DOMAIN runs : runs[j].pc # "done"})
    /\ (worker # NoWorker /\ concurrency >= 1 /\ Len(queue) > 0) => inFlight >= 1
    /\ (hasOnError /\ concurrency = 1) =>
          [i \in 1..Len(onErrorCalls) |-> onErrorCalls[i].job]
             = Reported(settledLog)

\* C6 witness: at limit 1 two jobs failed and were reported, and a job
\* enqueued after them completed.
C6_Witness ==
    /\ hasOnError
    /\ concurrency = 1
    /\ Len(onErrorCalls) >= 2
    /\ \E j \in DOMAIN runs :
          /\ runs[j].pc = "done"
          /\ runs[j].path = "ok"
          /\ j > onErrorCalls[2].job

\* C7: with a worker registered and a limit of at least 1, every enqueued job
\* is eventually handed to the worker (given that invocations settle); and at
\* all times each enqueued job is either pending or has been handed to the
\* worker, never both, and never handed over twice.
C7_NoJobLostOrDuplicated ==
    /\ \A j \in 1..MaxJobs :
          (worker # NoWorker /\ concurrency >= 1 /\ j < nextJid) ~> (j \in DOMAIN runs)
    /\ [](\A j \in 1..(nextJid - 1) :
             Occurrences(JidsOf(queue), j) + Occurrences(dispatched, j) = 1)

\* C7 witness: jobs enqueued before start() and after it have all been handed
\* to the worker.
C7_Witness ==
    /\ worker # NoWorker
    /\ startJid = 2
    /\ nextJid > MaxJobs
    /\ Len(dispatched) = MaxJobs
    /\ \A j \in DOMAIN runs : runs[j].pc = "done"

\* -------------------------------------------------- claims about the server
\* Job j shares its messageId with job k.
SameMessageId(j, k) == runs[j].job.messageId = runs[k].job.messageId

\* Job j went past the dedupe check.
WentBeyondDedupe(j) ==
    runs[j].pc \notin {"rawUpsert", "findUnique"} /\ runs[j].path # "duplicate"

\* Job j left a Message row, a DeliveryLog row or a call of sendMessage.
LeftTrace(j) ==
    \/ \E m \in messages : m.by = j
    \/ \E l \in deliveryLogs : l.by = j
    \/ \E c \in sendCalls : c.by = j

\* C1: jobs are processed one after the other (concurrency 1).  While the
\* store answers, of the jobs sharing a messageId only the first goes past the
\* dedupe check.  With or without store failures, a job that found the Message
\* of its messageId leaves no Message, no DeliveryLog and no sendMessage call,
\* and of the jobs sharing a messageId at most one leaves any.
C1_IdempotentReplay ==
    /\ faults = 0 =>
          \A j, k \in DOMAIN runs :
             (k < j /\ SameMessageId(j, k)) => ~WentBeyondDedupe(j) /\ ~LeftTrace(j)
    /\ \A j \in DOMAIN runs : runs[j].path = "duplicate" => ~LeftTrace(j)
    /\ \A j, k \in DOMAIN runs :
          (j # k /\ SameMessageId(j, k)) => ~(LeftTrace(j) /\ LeftTrace(k))

\* C1 witness: a messageId was delivered, answered, and delivered again; the
\* second job ended at the dedupe check.
C1_Witness ==
    \E j, k \in DOMAIN runs :
       /\ k < j
       /\ SameMessageId(j, k)
       /\ runs[k].path = "sent"
       /\ runs[j].path = "duplicate"
       /\ runs[j].pc = "done"

\* The messageIds of the jobs dispatched so far.
MessageIds == {runs[j].job.messageId : j \in DOMAIN runs}

\* C2: at any concurrency limit and in any interleaving, at most one inbound
\* Message is stored per messageId and sendMessage is called at most once for
\* it.
C2_ExactlyOnceUnderConcurrency ==
    \A mid \in MessageIds :
       /\ Cardinality({m \in messages :
                          m.direction = "IN" /\ m.igMessageId = mid}) <= 1
       /\ Cardinality({c \in sendCalls : runs[c.by].job.messageId = mid}) <= 1

\* C2 witness: two jobs of one messageId both passed the dedupe check; one
\* stored the Message and sent the reply, the other's insert was refused.
C2_Witness ==
    \E j, k \in DOMAIN runs :
       /\ j # k
       /\ SameMessageId(j, k)
       /\ runs[j].path = "threw"
       /\ runs[j].note = "P2002"
       /\ \E c \in sendCalls : c.by = k

\* C3 (as claimed): a job whose insert of the inbound Message is refused for
\* uniqueness ends as a silent no-op: it leaves no trace and its failure does
\* not reach the onError hook.
C3_RefusedInsertIsSilent ==
    /\ \A j \in DOMAIN runs : runs[j].note = "P2002" => ~LeftTrace(j)
    /\ \A i \in 1..Len(onErrorCalls) : onErrorCalls[i].error # "P2002"

\* The header is "sha256=" followed by the hex HMAC of the raw body under the
\* app secret.
ValidlySigned(req) ==
    req.signature = SignaturePrefix \o HmacHex(AppSecret, req.rawBody)

\* What each body of the model should yield: messageId, senderId, threadId,
\* text and isFromSelfOrSystem of its well-formed events, in order.
ExpectedJobs ==
    [bodyEmpty |-> <<>>,
     bodyOne |-> <<
        [messageId |-> "m1", senderId |-> "u1", threadId |-> "t1",
         text |-> "Price?", isFromSelfOrSystem |-> FALSE] >>,
     bodyMixed |-> <<
        [messageId |-> "m2", senderId |-> "u2", threadId |-> "e1_u2",
         text |-> " \t", isFromSelfOrSystem |-> FALSE],
        [messageId |-> "m4", senderId |-> "biz", threadId |-> "unknown_thread_biz",
         text |-> "hello", isFromSelfOrSystem |-> TRUE] >>,
     bodyReplay |-> <<
        [messageId |-> "m1", senderId |-> "u1", threadId |-> "e1_u1",
         text |-> "hello", isFromSelfOrSystem |-> FALSE],
        [messageId |-> "m1", senderId |-> "u1", threadId |-> "e1_u1",
         text |-> "hello", isFromSelfOrSystem |-> FALSE] >>]

\* The jobs the route handed to the queue for request r, in order.
RECURSIVE EnqueuedFor(_, _)
EnqueuedFor(r, log) ==
    IF log = <<>> THEN <<>>
    ELSE IF Head(log).request = r
         THEN <<Head(log).job>> \o EnqueuedFor(r, Tail(log))
         ELSE EnqueuedFor(r, Tail(log))

JobFields(job) ==
    [messageId |-> job.messageId, senderId |-> job.senderId,
     threadId |-> job.threadId, text |-> job.text,
     isFromSelfOrSystem |-> job.isFromSelfOrSystem]

\* The job object is pending in the queue or has been handed to the worker.
InQueueOrDispatched(job) ==
    (\E i \in 1..Len(queue) : queue[i] = job)
    \/ (job.jid \in DOMAIN runs /\ runs[job.jid].job = job)

\* C8: a request whose signature header is missing or does not verify is
\* answered 401 and nothing is enqueued for it; a validly signed request is
\* answered 200 and, when it is answered, one job per well-formed messaging
\* event has been enqueued, with the extracted fields.
C8_SignatureGate ==
    /\ Len(responses) = Len(requests)
    /\ \A r \in 1..Len(requests) :
          LET jobs == EnqueuedFor(r, enqueued) IN
          IF ValidlySigned(requests[r])
          THEN /\ responses[r].status = 200
               /\ [i \in 1..Len(jobs) |-> JobFields(jobs[i])]
                     = ExpectedJobs[requests[r].rawBody]
               /\ \A i \in 1..Len(jobs) : InQueueOrDispatched(jobs[i])
          ELSE /\ responses[r].status = 401
               /\ jobs = <<>>

\* C8 witness: a request with a bad signature was answered 401 and a signed
\* one carrying two well-formed events was answered 200.
C8_Witness ==
    \E r, q \in 1..Len(responses) :
       /\ responses[r].status = 401
       /\ responses[q].status = 200
       /\ Len(EnqueuedFor(q, enqueued)) = 2

\* C9: a validly signed delivery is answered 200 whatever became of the jobs
\* before it, and it is answered before any job it enqueued has settled; and
\* whatever has failed in the background, the route still takes a signed
\* delivery (for as long as the model lets requests arrive).
C9_FireAndForget ==
    /\ \A r \in 1..Len(requests) :
          ValidlySigned(requests[r]) =>
             /\ r <= Len(responses)
             /\ responses[r].status = 200
             /\ responses[r].ownSettled = {}
    /\ Len(requests) < MaxRequests =>
          ENABLED Webhook([rawBody |-> "bodyEmpty",
                           signature |-> SignaturePrefix \o HmacHex(AppSecret, "bodyEmpty")])

\* C9 witness: a job failed with an unexpected exception that reached onError,
\* another one ended with a send error, and a later signed delivery was
\* answered 200.
C9_Witness ==
    /\ \E j \in DOMAIN runs : runs[j].path = "sendError"
    /\ \E r \in 1..Len(responses) :
          /\ responses[r].status = 200
          /\ responses[r].failuresBefore > 0
          /\ EnqueuedFor(r, enqueued) # <<>>

\* The messaging events of a payload, entry after entry.
RECURSIVE EventsOf(_)
EventsOf(entries) ==
    IF entries = <<>> THEN <<>>
    ELSE (IF "messaging" \in DOMAIN Head(entries) THEN Head(entries).messaging ELSE <<>>)
         \o EventsOf(Tail(entries))

\* The event has a message id and a sender id.
HasBothIds(event) ==
    /\ "message" \in DOMAIN event
    /\ "mid" \in DOMAIN event.message
    /\ event.message.mid # ""
    /\ "sender" \in DOMAIN event
    /\ "id" \in DOMAIN event.sender
    /\ event.sender.id # ""

\* The <<message id, sender id>> of the events that have both, in order.
RECURSIVE IdsOfWellFormed(_)
IdsOfWellFormed(events) ==
    IF events = <<>> THEN <<>>
    ELSE (IF HasBothIds(Head(events))
          THEN << <<Head(events).message.mid, Head(events).sender.id>> >>
          ELSE <<>>)
         \o IdsOfWellFormed(Tail(events))

\* C10: for a validly signed delivery, the jobs enqueued are exactly the
\* events that have both a message id and a sender id, one job per such event;
\* the other events are dropped, and the response is 200 all the same.
C10_NormalizationFilter ==
    \A r \in 1..Len(responses) :
       ValidlySigned(requests[r]) =>
          LET payload == ParseBody[requests[r].rawBody]
              events == EventsOf(IF "entry" \in DOMAIN payload THEN payload.entry ELSE <<>>)
              jobs == EnqueuedFor(r, enqueued)
          IN /\ [i \in 1..Len(jobs) |-> <<jobs[i].messageId, jobs[i].senderId>>]
                   = IdsOfWellFormed(events)
             /\ responses[r].status = 200

\* C10 witness: a delivery with two well-formed events among six was
\* answered 200 with two jobs enqueued.
C10_Witness ==
    \E r \in 1..Len(responses) :
       /\ requests[r].rawBody = "bodyMixed"
       /\ responses[r].status = 200
       /\ Len(EnqueuedFor(r, enqueued)) = 2

\* ------------------------------------------- claims about the guardrails
\* The segment of a sender: its Contact's, STRANGER for an unseen sender.
SegmentOf(senderId) ==
    IF senderId \in DOMAIN contactsBySender THEN contactsBySender[senderId] ELSE "STRANGER"

\* The ReplyPolicy of a segment: the stored row, the default one if none is
\* stored.
PolicyOf(segment) ==
    IF \E p \in policies : p.segment = segment
    THEN CHOOSE p \in policies : p.segment = segment
    ELSE getDefaultPolicy(segment)

LogsBy(j) == {l \in deliveryLogs : l.by = j}

SendsBy(j) == {c \in sendCalls : c.by = j}

\* Job j is not a duplicate and has a draft that passes the empty-text, the
\* self/system and the confidence/approval guardrails.
PassedDraftGuardrails(j) ==
    /\ runs[j].path \notin {"duplicate", "threw"}
    /\ runs[j].inbound # ""
    /\ Trim(runs[j].job.text) # ""
    /\ ~runs[j].job.isFromSelfOrSystem
    /\ runs[j].draft # NoDraft
    /\ runs[j].draft.confidence >= 60
    /\ ~runs[j].draft.needs_human_approval
    /\ runs[j].pc \notin {"update", "llm"}

\* C11 (as claimed): a job that passed the other guardrails and whose sender's
\* segment has a policy with autoSend = false makes no sendMessage call and,
\* when it has ended, has written exactly one DeliveryLog, SKIPPED, whose
\* error contains "auto-send disabled for segment <segment>".
C11_PolicyGuardrail ==
    \A j \in DOMAIN runs :
       LET segment == SegmentOf(runs[j].job.senderId) IN
       (PassedDraftGuardrails(j) /\ ~PolicyOf(segment).autoSend) =>
          /\ SendsBy(j) = {}
          /\ runs[j].pc = "done" =>
                /\ Cardinality(LogsBy(j)) = 1
                /\ \A l \in LogsBy(j) :
                      /\ l.status = "SKIPPED"
                      /\ Includes(l.error, "auto-send disabled for segment " \o segment)

\* The provider answers of the model that are valid drafts.
ValidAnswers ==
    {[intent |-> "general_question", confidence |-> c,
      reply |-> "reply:llm", needs_human_approval |-> FALSE] : c \in {59, 60}}
    \cup
    {[intent |-> "general_question", confidence |-> 90,
      reply |-> "reply:llm", needs_human_approval |-> TRUE, extra |-> "ignored"]}

\* The provider call threw, or its content is not JSON, or it is not a draft.
ClassifierFailed(answer) ==
    answer.kind \in {"error", "malformed"}
    \/ (answer.kind = "object" /\ answer.parsed \notin ValidAnswers)

\* C12: whatever way the classifier call fails, generateDraft returns the
\* fallback draft (unknown, confidence 0, approval needed); a job classified
\* that way never reaches the send step, and when it has ended it has written
\* exactly one DeliveryLog, SKIPPED by the confidence/approval guardrail, and
\* made no sendMessage call.
C12_FailClosedClassification ==
    /\ \A answer \in LlmAnswers :
          ClassifierFailed(answer) =>
             generateDraft(answer) = [intent |-> "unknown", confidence |-> 0,
                                      reply |-> "reply:fallback",
                                      needs_human_approval |-> TRUE]
    /\ \A j \in DOMAIN runs :
          ClassifierFailed(runs[j].llm) =>
             /\ runs[j].draft.intent = "unknown"
             /\ runs[j].draft.confidence = 0
             /\ runs[j].draft.needs_human_approval
             /\ runs[j].pc \in {"update", "skipLog", "resolved", "done"}
             /\ SendsBy(j) = {}
             /\ runs[j].pc = "done" =>
                   /\ Cardinality(LogsBy(j)) = 1
                   /\ \A l \in LogsBy(j) :
                         /\ l.status = "SKIPPED"
                         /\ Includes(l.error, "low confidence or human approval required")

\* C12 witness: no rule matched a job's text, the provider threw, and the job
\* ended skipped.
C12_Witness ==
    \E j \in DOMAIN runs :
       /\ RulesDraft(runs[j].job.text) = NoDraft
       /\ runs[j].llm.kind = "error"
       /\ runs[j].pc = "done"
       /\ runs[j].path = "skipped"

\* The inbound Message of job j has been stored by j.
StoredInbound(j) ==
    /\ runs[j].inbound # ""
    /\ runs[j].path \notin {"duplicate", "threw"}

\* The text has no character other than white space.
IsBlank(text) ==
    \A i \in 1..Len(text) : SubSeq(text, i, i) \in {" ", "\t", "\n", "\r"}

\* Job j ended here: it wrote exactly one DeliveryLog, SKIPPED, with this
\* reason in its error.
OneSkippedLog(j, reason) ==
    /\ Cardinality(LogsBy(j)) = 1
    /\ \A l \in LogsBy(j) : l.status = "SKIPPED" /\ Includes(l.error, reason)

\* C13: a job with non-blank text, not self/system, whose draft has
\* confidence below 0.6 or asks for human approval is stopped: no sendMessage
\* call, and one SKIPPED DeliveryLog with "low confidence or human approval
\* required"; a draft at 0.6 or above that asks for no approval is not
\* stopped by this guardrail and goes on to the send step.
C13_ConfidenceGuardrail ==
    \A j \in DOMAIN runs :
       (/\ StoredInbound(j)
        /\ ~IsBlank(runs[j].job.text)
        /\ ~runs[j].job.isFromSelfOrSystem
        /\ runs[j].draft # NoDraft
        /\ runs[j].pc \notin {"llm", "update"}) =>
          IF runs[j].draft.confidence < 60 \/ runs[j].draft.needs_human_approval
          THEN /\ SendsBy(j) = {}
               /\ runs[j].pc \in {"skipLog", "resolved", "done"}
               /\ runs[j].pc = "done" =>
                     OneSkippedLog(j, "low confidence or human approval required")
          ELSE /\ runs[j].pc \in {"send", "createOutbound", "logSent", "logError",
                                 "resolved", "done"}
               /\ runs[j].path # "skipped"
               /\ \A l \in LogsBy(j) : l.status # "SKIPPED"

\* C13 witness: a draft with confidence exactly 0.6 and no approval flag went
\* through the guardrail and its reply was sent.
C13_Witness ==
    \E j \in DOMAIN runs :
       /\ runs[j].draft # NoDraft
       /\ runs[j].draft.confidence = 60
       /\ ~runs[j].draft.needs_human_approval
       /\ runs[j].path = "sent"
       /\ runs[j].pc = "done"

\* C14: a job whose text is empty or white space only stores its inbound
\* Message, is never classified, makes no sendMessage call, and ends with
\* exactly one DeliveryLog, SKIPPED, with "empty message text".
C14_EmptyTextGuardrail ==
    \A j \in DOMAIN runs :
       (IsBlank(runs[j].job.text) /\ StoredInbound(j)) =>
          /\ \E m \in messages :
                /\ m.id = runs[j].inbound
                /\ m.direction = "IN"
                /\ m.igMessageId = runs[j].job.messageId
                /\ m.text = runs[j].job.text
          /\ runs[j].draft = NoDraft
          /\ runs[j].llm = NoAnswer
          /\ SendsBy(j) = {}
          /\ runs[j].pc \in {"skipLog", "resolved", "done"}
          /\ runs[j].pc = "done" => OneSkippedLog(j, "empty message text")

\* C14 witness: a white-space-only message ended skipped.
C14_Witness ==
    \E j \in DOMAIN runs :
       /\ runs[j].job.text = " \t"
       /\ runs[j].pc = "done"
       /\ runs[j].path = "skipped"
       /\ LogsBy(j) # {}

\* C15: a job with non-blank text and isFromSelfOrSystem = true is never
\* classified (no rules draft, no classifier call), makes no sendMessage call
\* and ends with exactly one DeliveryLog, SKIPPED, with "self/system
\* message"; the echo of the business's own message is such a job.
C15_SelfSystemGuardrail ==
    /\ \A j \in DOMAIN runs :
          (/\ runs[j].job.isFromSelfOrSystem
           /\ ~IsBlank(runs[j].job.text)
           /\ StoredInbound(j)) =>
             /\ runs[j].draft = NoDraft
             /\ runs[j].llm = NoAnswer
             /\ SendsBy(j) = {}
             /\ runs[j].pc \in {"skipLog", "resolved", "done"}
             /\ runs[j].pc = "done" => OneSkippedLog(j, "self/system message")
    /\ \A j \in DOMAIN runs :
          runs[j].job.messageId = "m4" => runs[j].job.isFromSelfOrSystem

\* C15 witness: the echo of the model (m4) ended skipped.
C15_Witness ==
    \E j \in DOMAIN runs :
       /\ runs[j].job.messageId = "m4"
       /\ runs[j].job.isFromSelfOrSystem
       /\ runs[j].pc = "done"
       /\ runs[j].path = "skipped"

\* The Message rows job j created in a direction.
MessagesBy(j, direction) == {m \in messages : m.by = j /\ m.direction = direction}

\* C16: a job that passed the draft guardrails and whose sender's segment
\* policy allows auto-send calls sendMessage exactly once, for its sender and
\* with the draft's reply; when the send has succeeded and the job has ended,
\* there is exactly one outbound Message (direction OUT, sender the business
\* account id, the thread of the inbound Message, the reply as text), exactly
\* one DeliveryLog, with status SENT, and the inbound Message carries the
\* draft's intent and reply.
C16_AutoSendPath ==
    \A j \in DOMAIN runs :
       (PassedDraftGuardrails(j) /\ PolicyOf(SegmentOf(runs[j].job.senderId)).autoSend) =>
          /\ runs[j].pc # "send" =>
                /\ Cardinality(SendsBy(j)) = 1
                /\ \A c \in SendsBy(j) :
                      /\ c.recipient = runs[j].job.senderId
                      /\ c.text = runs[j].draft.reply
          /\ runs[j].pc = "send" => SendsBy(j) = {}
          /\ \E m \in messages :
                /\ m.id = runs[j].inbound
                /\ m.intent = runs[j].draft.intent
                /\ m.suggestedReply = runs[j].draft.reply
          /\ ((\A c \in SendsBy(j) : c.ok) /\ runs[j].pc \in {"resolved", "done"}) =>
                /\ Cardinality(MessagesBy(j, "OUT")) = 1
                /\ \A out \in MessagesBy(j, "OUT") :
                      /\ out.senderIgId = "ig_biz_id"
                      /\ out.text = runs[j].draft.reply
                      /\ \A inb \in MessagesBy(j, "IN") : out.threadId = inb.threadId
                /\ Cardinality(LogsBy(j)) = 1
                /\ \A l \in LogsBy(j) : l.status = "SENT"

\* C16 witness: a sender never seen before (segment STRANGER) asked for the
\* price, the rules matched, and the reply was sent and logged.
C16_Witness ==
    \E j \in DOMAIN runs :
       /\ runs[j].job.senderId \notin DOMAIN contactsBySender
       /\ runs[j].draft # NoDraft
       /\ runs[j].draft.intent = "pricing"
       /\ runs[j].pc = "done"
       /\ runs[j].path = "sent"
       /\ \E l \in LogsBy(j) : l.status = "SENT"

\* C17: when sendMessage throws, the job makes no second sendMessage call,
\* stores no outbound Message, does not reject (nothing reaches onError), and
\* ends with exactly one DeliveryLog: status ERROR, the exception's message
\* as error, the id of the job's inbound Message as messageId.
C17_SendFailure ==
    \A j \in DOMAIN runs :
       (\E c \in SendsBy(j) : ~c.ok) =>
          /\ Cardinality(SendsBy(j)) = 1
          /\ MessagesBy(j, "OUT") = {}
          /\ runs[j].pc \in {"logError", "resolved", "done"}
          /\ runs[j].path \in {"", "sendError"}
          /\ \A i \in 1..Len(onErrorCalls) : onErrorCalls[i].job # j
          /\ runs[j].pc \in {"resolved", "done"} =>
                /\ Cardinality(LogsBy(j)) = 1
                /\ \A l \in LogsBy(j) : \A c \in SendsBy(j) :
                      /\ l.status = "ERROR"
                      /\ l.error = (IF c.thrown.isError THEN c.thrown.message
                                    ELSE c.thrown.value)
                      /\ \E m \in MessagesBy(j, "IN") :
                            /\ m.id = l.messageId
                            /\ m.igMessageId = runs[j].job.messageId

\* C17 witness: sendMessage threw Error("Meta unavailable"), the job ended,
\* and the job after it was taken up.
C17_Witness ==
    \E j \in DOMAIN runs :
       /\ runs[j].pc = "done"
       /\ runs[j].path = "sendError"
       /\ \E l \in LogsBy(j) : l.error = "Meta unavailable"
       /\ \E k \in DOMAIN runs : k > j

\* C18 (as claimed): every DeliveryLog with status SENT, SKIPPED or ERROR has
\* as messageId the id of the inbound Message of the job that wrote it.
C18_LogsCarryInboundId ==
    \A l \in deliveryLogs :
       l.status \in {"SENT", "SKIPPED", "ERROR"} =>
          \E m \in MessagesBy(l.by, "IN") : m.id = l.messageId

\* C18 (amended): a SKIPPED or ERROR DeliveryLog has as messageId the id of
\* the inbound Message of the job that wrote it; a SENT DeliveryLog has the
\* id of the outbound Message that job stored for its reply.
C18_LogMessageIds ==
    \A l \in deliveryLogs :
       /\ l.status \in {"SENT", "SKIPPED", "ERROR"}
       /\ IF l.status = "SENT"
          THEN \E m \in MessagesBy(l.by, "OUT") : m.id = l.messageId
          ELSE \E m \in MessagesBy(l.by, "IN") :
                  m.id = l.messageId /\ m.igMessageId = runs[l.by].job.messageId

\* C18 witness: a SENT log and a SKIPPED log have been written.
C18_Witness ==
    /\ \E l \in deliveryLogs : l.status = "SENT"
    /\ \E l \in deliveryLogs : l.status = "SKIPPED"

\* The default table as the specification writes it.
DefaultTable ==
    [FRIEND   |-> [autoSend |-> FALSE, requireHumanApproval |-> TRUE,  template |-> "null"],
     KNOWN    |-> [autoSend |-> TRUE,  requireHumanApproval |-> FALSE, template |-> "null"],
     STRANGER |-> [autoSend |-> TRUE,  requireHumanApproval |-> FALSE, template |-> "null"],
     VIP      |-> [autoSend |-> FALSE, requireHumanApproval |-> TRUE,  template |-> "null"]]

\* The upserts that ensurePolicy issued (alone or under ensureAllPolicies)
\* and the store has executed.
EnsureResults ==
    UNION {policyCalls[i].results : i \in {k \in 1..Len(policyCalls) :
              policyCalls[k].kind \in {"ensurePolicy", "ensureAllPolicies"}}}

\* C19: the default policy is FRIEND -> (autoSend false, requireHumanApproval
\* true), KNOWN -> (true, false), STRANGER -> (true, false), VIP -> (false,
\* true), each with template null, and a policy that ensurePolicy creates for
\* a segment with no stored policy has exactly these values.
C19_DefaultPolicyTable ==
    /\ DOMAIN DefaultTable = {CONTACT_SEGMENTS[i] : i \in 1..Len(CONTACT_SEGMENTS)}
    /\ \A segment \in DOMAIN DefaultTable :
          getDefaultPolicy(segment) = DefaultTable[segment]
    /\ \A r \in EnsureResults :
          r.before = NoPolicy =>
             /\ r.returned = [segment |-> r.segment,
                              autoSend |-> DefaultTable[r.segment].autoSend,
                              requireHumanApproval |-> DefaultTable[r.segment].requireHumanApproval,
                              template |-> DefaultTable[r.segment].template]
             /\ r.stored = {r.returned}

\* ensurePolicy created the policy of VIP and of FRIEND, neither stored
\* before.
C19_Witness ==
    /\ \E r \in EnsureResults : r.segment = "VIP" /\ r.before = NoPolicy
    /\ \E r \in EnsureResults : r.segment = "FRIEND" /\ r.before = NoPolicy

C21_SignatureVerifier ==
    \A i \in 1..Len(evaluated) :
       evaluated[i].fn = "verifySignature" =>
          (evaluated[i].result <=>
             evaluated[i].headerSignature =
                SignaturePrefix \o HmacHex(evaluated[i].appSecret, evaluated[i].rawBody))

\* The keyword sets in their priority order, with the intent of each.
KeywordSets ==
    << [intent |-> "pricing",       keywords |-> {"price", "how much", "cost"}],
       [intent |-> "refund",        keywords |-> {"refund", "return", "chargeback"}],
       [intent |-> "shipping",      keywords |-> {"shipping", "delivery", "tracking"}],
       [intent |-> "order_support", keywords |-> {"order", "purchase", "invoice"}] >>

\* The sets of which the lower-cased text contains a keyword.
MatchingSets(text) ==
    {i \in 1..Len(KeywordSets) :
        \E k \in KeywordSets[i].keywords : Includes(ToLowerCase(text), k)}

RulesCalls ==
    {evaluated[i] : i \in {k \in 1..Len(evaluated) :
                              evaluated[k].fn = "rules.generateDraft"}}

\* C22: the keyword sets are tried in the order pricing, refund, shipping,
\* order-support and the first that matches gives the draft, whatever other
\* sets match; a matched draft needs no human approval and has confidence
\* at least 0.88; a text that matches no set gives null.
C22_RulePriority ==
    \A c \in RulesCalls :
       IF MatchingSets(c.text) = {}
       THEN c.result = NoDraft
       ELSE /\ c.result # NoDraft
            /\ \E i \in MatchingSets(c.text) :
                  /\ \A k \in MatchingSets(c.text) : i <= k
                  /\ c.result.intent = KeywordSets[i].intent
            /\ c.result.needs_human_approval = FALSE
            /\ c.result.confidence >= 88

\* A text with a refund keyword and an order-support keyword got the refund
\* draft.
C22_Witness ==
    \E c \in RulesCalls :
       /\ MatchingSets(c.text) = {2, 4}
       /\ c.result # NoDraft
       /\ c.result.intent = "refund"

\* What the k-th /admin/send request wrote and sent.
AdminLogs(k) == {l \in deliveryLogs : l.by = AdminBy(k)}

AdminMessages(k) == {m \in messages : m.by = AdminBy(k)}

AdminSends(k) == {c \in sendCalls : c.by = AdminBy(k)}

\* The request has been answered.
AdminDone(k) == adminRuns[k].pc = "done"

\* C23: a manual send for an id that no Message has, or that an outbound
\* Message has, is answered 404 without a sendMessage call and without a
\* DeliveryLog; when sendMessage succeeds, an outbound Message on the
\* inbound Message's thread and a DeliveryLog SENT_MANUAL are created; when
\* sendMessage throws, a DeliveryLog ERROR_MANUAL on the inbound Message's id
\* is written, no outbound Message is created and the answer is 500.
C23_ManualSend ==
    \A k \in DOMAIN adminRuns :
       /\ adminRuns[k].lookup \in {"none", "OUT"} =>
             /\ AdminDone(k) /\ adminRuns[k].status = 404
             /\ AdminSends(k) = {}
             /\ AdminLogs(k) = {}
             /\ AdminMessages(k) = {}
       /\ adminRuns[k].status = 404 => adminRuns[k].lookup \in {"none", "OUT"}
       /\ (AdminDone(k) /\ \E c \in AdminSends(k) : c.ok) =>
             /\ \E m \in AdminMessages(k) :
                   /\ m.direction = "OUT"
                   /\ m.text = adminRuns[k].replyText
                   /\ \E inb \in messages :
                         /\ inb.id = adminRuns[k].messageId
                         /\ inb.direction = "IN"
                         /\ m.threadId = inb.threadId
             /\ \E l \in AdminLogs(k) : l.status = "SENT_MANUAL"
             /\ \A l \in AdminLogs(k) : l.status # "ERROR_MANUAL"
       /\ (AdminDone(k) /\ \E c \in AdminSends(k) : ~c.ok) =>
             /\ \E l \in AdminLogs(k) :
                   /\ l.status = "ERROR_MANUAL"
                   /\ l.messageId = adminRuns[k].messageId
                   /\ \E inb \in messages : inb.id = l.messageId /\ inb.direction = "IN"
             /\ \A l \in AdminLogs(k) : l.status # "SENT_MANUAL"
             /\ AdminMessages(k) = {}
             /\ adminRuns[k].status = 500

\* Of two sends of the operator for the inbound Message, one failed and was
\* answered 500, the other succeeded and was answered with the redirect.
C23_Witness ==
    \E k, n \in DOMAIN adminRuns :
       /\ AdminDone(k) /\ AdminDone(n)
       /\ adminRuns[k].status = 500
       /\ \E c \in AdminSends(k) : ~c.ok
       /\ adminRuns[n].status = 302
       /\ \E c \in AdminSends(n) : c.ok
       /\ adminRuns[k].messageId = adminRuns[n].messageId

\* C28: when the onError hook throws while it handles a failed job, the
\* queue still decrements inFlight for that job and goes on dispatching:
\* as long as a job is pending, the process runs and an invocation is in
\* flight whose finally callback will drain the queue.
C28_FailingHookRobustness ==
    /\ \A j \in DOMAIN runs :
          (HookThrew(j) /\ runs[j].pc = "done") =>
             inFlight = Cardinality({k \in DOMAIN runs : runs[k].pc # "done"})
    /\ (worker # NoWorker /\ concurrency >= 1 /\ queue # <<>>) =>
          /\ process = "running"
          /\ \E k \in DOMAIN runs : runs[k].pc # "done"

Min(a, b) == IF a <= b THEN a ELSE b

\* The invocations whose finally callback has run.
Finished == {j \in DOMAIN runs : runs[j].pc = "done"}

\* C24: once a worker is registered, the number of in-flight jobs is the
\* smaller of the concurrency limit and the number of jobs in flight or
\* pending: no slot is free while a job is pending.
C24_WorkConservation ==
    worker # NoWorker =>
       /\ inFlight = Min(concurrency, inFlight + Len(queue))
       /\ (Len(queue) > 0 => inFlight >= concurrency)

\* A completion has been handled, every slot is taken again and a job is
\* still pending.
C24_Witness ==
    /\ worker # NoWorker
    /\ concurrency >= 1
    /\ inFlight = concurrency
    /\ Len(queue) >= 1
    /\ Finished # {}

\* s is the start of t.
IsPrefix(s, t) == Len(s) <= Len(t) /\ \A i \in 1..Len(s) : s[i] = t[i]

\* C25: at every concurrency limit of 1 or more and under every order of
\* enqueues and completions, the jobs are handed to the worker in the order
\* they were enqueued; jobs complete in another order than they were handed
\* over only at a limit above 1.
C25_FifoDispatch ==
    /\ \A i \in 1..Len(dispatched) : dispatched[i] = i
    /\ \A i \in 1..Len(queue) : queue[i].jid = Len(dispatched) + i
    /\ ~IsPrefix(settledLog, dispatched) => concurrency > 1

\* At limit 2 the job handed over second completed first, and three jobs
\* were handed over in enqueue order.
C25_Witness ==
    /\ concurrency = 2
    /\ Len(dispatched) = 3
    /\ Len(settledLog) >= 2
    /\ settledLog[1] = 2
    /\ settledLog[2] = 1

\* The first n elements of s.
Take(s, n) == SubSeq(s, 1, Min(n, Len(s)))

\* C26: jobs enqueued before a worker is registered stay pending, in order,
\* none dispatched and none dropped; the first start(worker) hands them to
\* the worker in enqueue order, as many as the concurrency limit allows,
\* with no further enqueue.
C26_EnqueueBeforeStart ==
    /\ [](worker = NoWorker =>
             /\ dispatched = <<>>
             /\ runs = <<>>
             /\ inFlight = 0
             /\ JidsOf(queue) = [i \in 1..(nextJid - 1) |-> i])
    /\ [][(worker = NoWorker /\ worker' # NoWorker) =>
             /\ dispatched' = Take(JidsOf(queue), concurrency)
             /\ queue' = SubSeq(queue, Len(dispatched') + 1, Len(queue))
             /\ DOMAIN runs' = SeqToSet(dispatched')
             /\ nextJid' = nextJid]_vars

\* Three jobs were enqueued before start(); start() at limit 2 handed over
\* the first two and nothing else has happened since.
C26_Witness ==
    /\ worker # NoWorker
    /\ concurrency = 2
    /\ startJid = 4
    /\ dispatched = <<1, 2>>
    /\ JidsOf(queue) = <<3>>
    /\ settledLog = <<>>

\* C27: inFlight goes up by one for each job handed to the worker and down
\* by one when the finally callback of that invocation runs, after success
\* and after failure alike; it is never negative and is the number of jobs
\* handed over whose callback has not run.
C27_InFlightAccounting ==
    /\ [](inFlight >= 0)
    /\ [](inFlight = Len(dispatched) - Cardinality(Finished))
    /\ [][inFlight' - inFlight =
             (Len(dispatched') - Len(dispatched))
             - (Cardinality(Finished') - Cardinality(Finished))]_vars
    /\ [][\A j \in DOMAIN runs : j \in Finished => j \in Finished']_vars

\* A job that failed and a job that succeeded have both given their slot
\* back while a third is in flight.
C27_Witness ==
    /\ \E j \in Finished : runs[j].path = "threw"
    /\ \E j \in Finished : runs[j].path = "ok"
    /\ inFlight = 1

\* The worker run of job j has returned.
Returned(j) == runs[j].pc \in {"resolved", "done"} /\ runs[j].path # "threw"

\* The Message of job j's messageId was stored by another job: j is a
\* duplicate (jobs run one at a time here).
IsDuplicate(j) ==
    \E m \in messages :
       m.igMessageId = runs[j].job.messageId /\ m.direction = "IN" /\ m.by # j

\* The first gate, in the order dedupe, empty text, self/system,
\* confidence/approval, policy, that job j fails; "none" if it passes all.
FirstFailedGate(j) ==
    IF IsDuplicate(j) THEN "dedupe"
    ELSE IF IsBlank(runs[j].job.text) THEN "empty"
    ELSE IF runs[j].job.isFromSelfOrSystem THEN "self"
    ELSE IF runs[j].draft.confidence < 60 \/ runs[j].draft.needs_human_approval
    THEN "review"
    ELSE IF ~PolicyOf(SegmentOf(runs[j].job.senderId)).autoSend THEN "policy"
    ELSE "none"

GateReason ==
    [empty  |-> "empty message text",
     self   |-> "self/system message",
     review |-> "low confidence or human approval required",
     policy |-> "auto-send disabled for segment"]

\* What job j has done if `gate` is where it ended.
EndedAt(j, gate) ==
    IF gate = "dedupe"
    THEN LogsBy(j) = {} /\ SendsBy(j) = {} /\ MessagesBy(j, "IN") = {}
    ELSE IF gate = "none"
    THEN SendsBy(j) # {}
    ELSE /\ OneSkippedLog(j, GateReason[gate])
         /\ SendsBy(j) = {}
         /\ gate \in {"empty", "self"} => runs[j].draft = NoDraft

\* C29: the gates are passed in the order dedupe, empty text, self/system,
\* confidence/approval, policy; a job ends at the first gate it fails, with
\* the log of that gate and no other.  A blank self/system message is
\* logged as "empty message text"; a duplicate writes no DeliveryLog even
\* when it is blank or self/system.
C29_GuardrailOrder ==
    \A j \in DOMAIN runs : Returned(j) => EndedAt(j, FirstFailedGate(j))

\* C30: a job that passed the dedupe check and whose worker run returned
\* without throwing has written exactly one DeliveryLog, SKIPPED, SENT or
\* ERROR, when it returns; a duplicate job has written none; and no job
\* ever has more than one.
C30_OneTerminalLog ==
    \A j \in DOMAIN runs :
       /\ Cardinality(LogsBy(j)) <= 1
       /\ Returned(j) =>
             IF runs[j].path = "duplicate"
             THEN LogsBy(j) = {}
             ELSE /\ Cardinality(LogsBy(j)) = 1
                  /\ \A l \in LogsBy(j) : l.status \in {"SKIPPED", "SENT", "ERROR"}

\* A job whose send ended in the catch block has returned with its ERROR
\* log, and two duplicates of it have returned with none.
C30_Witness ==
    /\ \E j \in DOMAIN runs :
          Returned(j) /\ \E l \in LogsBy(j) : l.status = "ERROR"
    /\ \E j, k \in DOMAIN runs :
          /\ j # k
          /\ Returned(j) /\ runs[j].path = "duplicate"
          /\ Returned(k) /\ runs[k].path = "duplicate"

\* C31: a DeliveryLog with status ERROR is written by a job only when its
\* sendMessage call threw; a job whose sendMessage call returned has, once
\* its run has ended, an outbound Message and a DeliveryLog SENT and no
\* DeliveryLog ERROR, also when a write to the store failed after the send.
C31_ErrorMeansNotDelivered ==
    /\ \A l \in deliveryLogs :
          l.status = "ERROR" => \E c \in SendsBy(l.by) : ~c.ok
    /\ \A j \in DOMAIN runs :
          ((\E c \in SendsBy(j) : c.ok) /\ runs[j].pc \in {"resolved", "done"}) =>
             /\ MessagesBy(j, "OUT") # {}
             /\ \E l \in LogsBy(j) : l.status = "SENT"
             /\ \A l \in LogsBy(j) : l.status # "ERROR"

\* Job j stored its inbound Message and passed the empty-text and the
\* self/system guardrails: it reached the classify step.
ReachedClassify(j) ==
    /\ runs[j].inbound # ""
    /\ ~IsBlank(runs[j].job.text)
    /\ ~runs[j].job.isFromSelfOrSystem

\* The classifier's generateDraft has been called for job j.
ClassifierInvoked(j) == runs[j].pc = "llm" \/ runs[j].llm # NoAnswer

\* The inbound Message of job j carries this draft.
InboundCarries(j, d) ==
    \E m \in MessagesBy(j, "IN") :
       /\ m.id = runs[j].inbound
       /\ m.intent = d.intent
       /\ m.confidence = d.confidence
       /\ m.suggestedReply = d.reply
       /\ m.needsHumanApproval = d.needs_human_approval

\* C32: the classifier is invoked for a job exactly when the job reached
\* the classify step and the rules returned null; when the rules match,
\* their draft is the one stored on the inbound Message and sent; and a job
\* that reached the classify step gets a draft, never null and never an
\* exception, once the classifier (if asked) has answered.
C32_RulesFirst ==
    \A j \in DOMAIN runs :
       /\ ClassifierInvoked(j) <=>
             (ReachedClassify(j) /\ RulesDraft(runs[j].job.text) = NoDraft)
       /\ (ReachedClassify(j) /\ RulesDraft(runs[j].job.text) # NoDraft) =>
             /\ runs[j].draft = RulesDraft(runs[j].job.text)
             /\ runs[j].pc # "update" => InboundCarries(j, RulesDraft(runs[j].job.text))
             /\ \A c \in SendsBy(j) : c.text = RulesDraft(runs[j].job.text).reply
       /\ (ReachedClassify(j) /\ runs[j].pc # "llm") =>
             /\ runs[j].draft # NoDraft
             /\ SchemaAccepts(runs[j].draft)
             /\ runs[j].path # "threw"
             /\ runs[j].pc # "rejected"

\* Of one delivery, the message with a keyword was answered with the rule
\* draft without a classifier call, and for the other the provider failed
\* and the job went on with the fallback draft.
C32_Witness ==
    \E j, k \in DOMAIN runs :
       /\ ReachedClassify(j) /\ RulesDraft(runs[j].job.text) # NoDraft
       /\ runs[j].llm = NoAnswer
       /\ runs[j].path = "sent"
       /\ ReachedClassify(k) /\ RulesDraft(runs[k].job.text) = NoDraft
       /\ runs[k].llm.kind = "error"
       /\ runs[k].draft = FallbackDraft
       /\ runs[k].pc = "done"

\* C33: at every call of sendMessage by the worker, the inbound Message of
\* the job already carries the draft's intent, confidence, suggestedReply
\* and needsHumanApproval, the recipient of the call is the job's senderId
\* and its text is the stored suggestedReply.
C33_ClassifiedBeforeSend ==
    [][\A j \in DOMAIN runs : \A c \in SendsBy(j)' \ SendsBy(j) :
          /\ c.recipient = runs[j].job.senderId
          /\ \E m \in messages :
                /\ m.id = runs[j].inbound
                /\ m.direction = "IN"
                /\ m.igMessageId = runs[j].job.messageId
                /\ m.intent \in Intents
                /\ m.confidence \in 0..100
                /\ m.intent = runs[j].draft.intent
                /\ m.confidence = runs[j].draft.confidence
                /\ m.needsHumanApproval = runs[j].draft.needs_human_approval
                /\ m.suggestedReply = runs[j].draft.reply
                /\ c.text = m.suggestedReply]_vars

\* The classifier's draft was stored on the inbound Message of a job and the
\* reply sent to its sender, after a write to the store had failed for an
\* earlier job.
C33_Witness ==
    /\ \E j \in DOMAIN runs : \E c \in SendsBy(j) : \E m \in MessagesBy(j, "IN") :
          /\ c.ok
          /\ RulesDraft(runs[j].job.text) = NoDraft
          /\ m.suggestedReply = "reply:llm"
          /\ c.text = m.suggestedReply
          /\ c.recipient = m.senderIgId
    /\ faults > 0

\* The classification fields of a Message row.
Classification(m) ==
    [intent |-> m.intent, confidence |-> m.confidence,
     suggestedReply |-> m.suggestedReply, needsHumanApproval |-> m.needsHumanApproval]

\* The classification fields of a Message nobody has classified.
Unclassified ==
    [intent |-> "null", confidence |-> -1,
     suggestedReply |-> "null", needsHumanApproval |-> FALSE]

InboundOf(mid) == {m \in messages : m.direction = "IN" /\ m.igMessageId = mid}

\* C34: there is at most one inbound Message per messageId, and there is
\* one as soon as a job has stored it; a Message is never deleted and its
\* identity, direction and text never change; the classification fields of
\* a Message are written only while they are unset, only on an inbound
\* Message and only by the classify step of the job that created it; and a
\* job stopped by the empty-text or the self/system guardrail is never
\* classified and leaves the fields of its inbound Message unset.
C34_InboundLifecycle ==
    /\ [](\A j \in DOMAIN runs :
             /\ Cardinality(InboundOf(runs[j].job.messageId)) <= 1
             /\ runs[j].inbound # "" =>
                   \E m \in InboundOf(runs[j].job.messageId) :
                      m.id = runs[j].inbound /\ m.by = j
             /\ (runs[j].inbound # ""
                 /\ (IsBlank(runs[j].job.text) \/ runs[j].job.isFromSelfOrSystem)) =>
                   /\ runs[j].draft = NoDraft
                   /\ runs[j].pc \notin {"llm", "update", "send"}
                   /\ \A m \in MessagesBy(j, "IN") : Classification(m) = Unclassified)
    /\ [][\A m \in messages : \E n \in messages' :
             /\ n.id = m.id
             /\ n.igMessageId = m.igMessageId
             /\ n.direction = m.direction
             /\ n.text = m.text
             /\ n.by = m.by
             /\ Classification(n) # Classification(m) =>
                   /\ Classification(m) = Unclassified
                   /\ m.direction = "IN"
                   /\ m.by \in DOMAIN runs
                   /\ runs[m.by].pc = "update"
                   /\ runs'[m.by].pc # "update"
                   /\ m.id = runs[m.by].inbound
                   /\ n.intent = runs[m.by].draft.intent
                   /\ n.intent \in Intents]_vars

\* A blank message and an echo ended skipped with their inbound Messages
\* unclassified, and a third message was classified.
C34_Witness ==
    \E j, k, n \in DOMAIN runs :
       /\ IsBlank(runs[j].job.text) /\ runs[j].path = "skipped"
       /\ \E m \in MessagesBy(j, "IN") : Classification(m) = Unclassified
       /\ ~IsBlank(runs[k].job.text) /\ runs[k].job.isFromSelfOrSystem
       /\ runs[k].path = "skipped"
       /\ \E m \in MessagesBy(k, "IN") : Classification(m) = Unclassified
       /\ \E m \in MessagesBy(n, "IN") : m.intent \in Intents

RawEventsOf(mid) == {e \in rawEvents : e.igMessageId = mid}

\* The first job delivered with the messageId of job j.
FirstDelivery(j) ==
    CHOOSE k \in DOMAIN runs :
       /\ SameMessageId(j, k)
       /\ \A n \in DOMAIN runs : SameMessageId(j, n) => k <= n

\* C35: the RawEvent upsert is the first thing a job does, before the
\* dedupe check and before any other row or call; once a job is past it
\* there is exactly one RawEvent of its messageId, with the payload and the
\* receipt time of the first delivery of that messageId; a RawEvent never
\* changes or disappears, and the upsert of a replayed messageId succeeds,
\* changes nothing and goes on to the dedupe check.
C35_RawEventPersistence ==
    /\ [](\A j \in DOMAIN runs :
             IF runs[j].pc = "rawUpsert"
             THEN ~LeftTrace(j) /\ runs[j].inbound = "" /\ runs[j].path = ""
             ELSE /\ Cardinality(RawEventsOf(runs[j].job.messageId)) = 1
                  /\ \A e \in RawEventsOf(runs[j].job.messageId) :
                        /\ e.payload = runs[FirstDelivery(j)].job.rawPayload
                        /\ e.receivedAt = ReceivedAt(FirstDelivery(j)))
    /\ [](\A e \in rawEvents : e.igMessageId \in MessageIds)
    /\ [][\A e \in rawEvents : e \in rawEvents']_vars
    /\ [][\A j \in DOMAIN runs :
             (/\ runs[j].pc = "rawUpsert"
              /\ runs'[j].pc # "rawUpsert"
              /\ RawEventsOf(runs[j].job.messageId) # {}) =>
                /\ rawEvents' = rawEvents
                /\ runs'[j].pc = "findUnique"]_vars

\* A message was delivered and answered, then delivered again in another
\* payload: the replay ended at the dedupe check and the RawEvent still
\* holds the first payload.
C35_Witness ==
    \E j, k \in DOMAIN runs :
       /\ k < j
       /\ SameMessageId(j, k)
       /\ runs[j].job.rawPayload # runs[k].job.rawPayload
       /\ runs[j].path = "duplicate"
       /\ runs[j].pc = "done"
       /\ \E e \in RawEventsOf(runs[j].job.messageId) :
             e.payload = runs[k].job.rawPayload /\ e.receivedAt = ReceivedAt(k)

\* Job j stored its inbound Message and then threw.
FailedAfterInbound(j) == runs[j].path = "threw" /\ runs[j].inbound # ""

\* The jobs delivered with this messageId.
JobsOf(mid) == {k \in DOMAIN runs : runs[k].job.messageId = mid}

\* What the automatic pipeline has stored and sent for a messageId.
PipelineRows(mid) ==
    [messages |-> {m \in messages : m.by \in JobsOf(mid)},
     logs |-> {l \in deliveryLogs : l.by \in JobsOf(mid)},
     sends |-> {c \in sendCalls : c.by \in JobsOf(mid)}]

\* The rows job j had stored are there, its failure reached onError once
\* its catch callback has run, no DeliveryLog was written by it or for its
\* Message, and every later job of the messageId stays before the thread
\* upsert and leaves nothing.
AbandonedAsIs(j) ==
    /\ \E m \in MessagesBy(j, "IN") :
          m.id = runs[j].inbound /\ m.igMessageId = runs[j].job.messageId
    /\ RawEventsOf(runs[j].job.messageId) # {}
    /\ runs[j].job.threadId \in threads
    /\ LogsBy(j) = {}
    /\ \A l \in deliveryLogs : l.messageId # runs[j].inbound
    /\ runs[j].pc \in {"rejected", "caught", "done"}
    /\ runs[j].pc \in {"caught", "done"} =>
          Cardinality({i \in 1..Len(onErrorCalls) :
                          onErrorCalls[i].job = j /\ onErrorCalls[i].error = runs[j].note}) = 1
    /\ \A k \in JobsOf(runs[j].job.messageId) :
          k > j =>
             /\ runs[k].pc \in {"rawUpsert", "findUnique", "resolved", "rejected",
                                "caught", "done"}
             /\ runs[k].path \in {"", "duplicate", "threw"}
             /\ runs[k].inbound = ""
             /\ ~LeftTrace(k)

\* C36 (as claimed): a job that threw after storing its inbound Message
\* keeps its rows, its exception reaches onError, every later delivery of
\* the messageId stops at the dedupe check, and the message is never
\* classified, never answered and never gets a DeliveryLog.
C36_NoRecoveryByReplay ==
    \A j \in DOMAIN runs :
       FailedAfterInbound(j) =>
          /\ AbandonedAsIs(j)
          /\ \A m \in MessagesBy(j, "IN") : Classification(m) = Unclassified
          /\ \A c \in PipelineRows(runs[j].job.messageId).sends : ~c.ok

\* C36 (amended): a job that threw after storing its inbound Message keeps
\* its rows, its exception reaches onError, every later delivery of the
\* messageId stops at the dedupe check, and from the failure on nothing is
\* added to or changed in what the pipeline stored and sent for the message:
\* it never gets a DeliveryLog, and it is classified or answered only if the
\* failed job had done that before it threw.
C36_AbandonedWhereItFailed ==
    /\ [](\A j \in DOMAIN runs : FailedAfterInbound(j) => AbandonedAsIs(j))
    /\ [][\A j \in DOMAIN runs :
             FailedAfterInbound(j) =>
                PipelineRows(runs[j].job.messageId)' = PipelineRows(runs[j].job.messageId)]_vars

\* The write of the classification failed for a message; the failure was
\* reported, and the replay of the message ended at the dedupe check with
\* the message still unclassified.
C36_Witness ==
    \E j, k \in DOMAIN runs :
       /\ FailedAfterInbound(j)
       /\ \A m \in MessagesBy(j, "IN") : Classification(m) = Unclassified
       /\ RulesDraft(runs[j].job.text) # NoDraft \/ runs[j].draft # NoDraft
       /\ \E i \in 1..Len(onErrorCalls) : onErrorCalls[i].job = j
       /\ k > j
       /\ SameMessageId(j, k)
       /\ runs[k].path = "duplicate"
       /\ runs[k].pc = "done"

\* C37: no step of the worker or of the manual send changes or removes a
\* DeliveryLog entry or removes a Message: every entry there is before a
\* step is there, unchanged, after it, and every Message is still there.
C37_AppendOnlyLogs ==
    /\ [][\A l \in deliveryLogs : l \in deliveryLogs']_vars
    /\ [][Cardinality(deliveryLogs') >= Cardinality(deliveryLogs)]_vars
    /\ [][\A m \in messages : \E n \in messages' :
             n.id = m.id /\ n.igMessageId = m.igMessageId /\ n.direction = m.direction]_vars

\* The worker logged its send, then a manual send for the same inbound
\* Message failed and was logged, then another succeeded and was logged.
C37_Witness ==
    /\ \E l \in deliveryLogs : l.status = "SENT" /\ l.by \in DOMAIN runs
    /\ \E k, n \in DOMAIN adminRuns :
          /\ k < n
          /\ \E l \in AdminLogs(k) : l.status = "ERROR_MANUAL"
          /\ \E l \in AdminLogs(n) : l.status = "SENT_MANUAL"
          /\ adminRuns[k].messageId = adminRuns[n].messageId

ContactsOf(senderIgId) == {c \in contacts : c.senderIgId = senderIgId}

\* The contact-segment requests that have been answered with success for
\* this sender.
LabelsOf(senderIgId) ==
    {k \in DOMAIN contactRuns :
        /\ contactRuns[k].pc = "done"
        /\ contactRuns[k].status # 400
        /\ contactRuns[k].senderIgId = senderIgId}

\* The Contact table changes only in the step that executes the upsert of a
\* contact-segment request with a sender id and a valid segment name, and
\* then only the Contact of that sender; a request with an invalid segment
\* name or without a sender id is answered 400 and changes nothing.
ContactsChangeOnlyByOperator ==
    /\ [][contacts' # contacts =>
             \E k \in DOMAIN contactRuns :
                /\ contactRuns[k].pc = "upsert"
                /\ contactRuns'[k].pc = "done"
                /\ isContactSegment(contactRuns[k].segment)
                /\ ContactsOf(contactRuns[k].senderIgId)' =
                      {[senderIgId |-> contactRuns[k].senderIgId,
                        segment |-> contactRuns[k].segment]}
                /\ \A c \in contacts :
                      c.senderIgId # contactRuns[k].senderIgId => c \in contacts']_vars
    /\ [](\A k \in DOMAIN contactRuns :
             (Falsy(contactRuns[k].senderIgId) \/ ~isContactSegment(contactRuns[k].segment)) =>
                /\ contactRuns[k].pc = "done"
                /\ contactRuns[k].status = 400)
    /\ [](\A k \in DOMAIN contactRuns :
             contactRuns[k].status \in {200, 302} =>
                isContactSegment(contactRuns[k].segment))

\* C38 (as claimed): a job that has come to the policy lookup has a Contact
\* for its sender, with segment STRANGER unless the Contact was there before
\* or the operator has labelled the sender; no sender has two Contacts; a
\* Contact's segment is the one it started with, STRANGER, or one the
\* operator posted for that sender; and a request with an invalid segment
\* name is answered 400.
C38_ContactSegments ==
    /\ \A j \in DOMAIN runs :
          PassedDraftGuardrails(j) =>
             /\ ContactsOf(runs[j].job.senderId) # {}
             /\ (runs[j].job.senderId \notin DOMAIN contactsBySender
                 /\ LabelsOf(runs[j].job.senderId) = {}) =>
                   \A c \in ContactsOf(runs[j].job.senderId) : c.segment = "STRANGER"
    /\ \A c \in contacts :
          /\ Cardinality(ContactsOf(c.senderIgId)) = 1
          /\ \/ c \in ContactRows
             \/ c.segment = "STRANGER" /\ LabelsOf(c.senderIgId) = {}
             \/ \E k \in LabelsOf(c.senderIgId) : contactRuns[k].segment = c.segment
    /\ \A k \in DOMAIN contactRuns :
          ~isContactSegment(contactRuns[k].segment) =>
             contactRuns[k].pc = "done" /\ contactRuns[k].status = 400

\* The place of job j in the order of worker invocations, 0 if it has not
\* been handed to the worker.
DispatchIndex(j) ==
    IF \E i \in 1..Len(dispatched) : dispatched[i] = j
    THEN CHOOSE i \in 1..Len(dispatched) : dispatched[i] = j
    ELSE 0

\* C39: the jobs enqueued for a delivery are its well-formed events in
\* payload order (entry after entry, and event after event within an
\* entry); they are handed to the worker in that order, and at concurrency 1
\* a job of the delivery is taken up only when the jobs before it in the
\* payload have been completed.
C39_PayloadOrder ==
    \A r \in 1..Len(responses) :
       LET payload == ParseBody[requests[r].rawBody]
           events == EventsOf(IF "entry" \in DOMAIN payload THEN payload.entry ELSE <<>>)
           jobs == EnqueuedFor(r, enqueued)
       IN /\ responses[r].status = 200 =>
                [i \in 1..Len(jobs) |-> <<jobs[i].messageId, jobs[i].senderId>>]
                   = IdsOfWellFormed(events)
          /\ \A i, k \in 1..Len(jobs) :
                i < k =>
                   /\ jobs[i].jid < jobs[k].jid
                   /\ jobs[k].jid \in DOMAIN runs =>
                         /\ jobs[i].jid \in DOMAIN runs
                         /\ DispatchIndex(jobs[i].jid) < DispatchIndex(jobs[k].jid)
                         /\ concurrency = 1 => runs[jobs[i].jid].pc = "done"

\* The two well-formed events of a delivery, one in each of two entries,
\* were processed in payload order: the first is done, the second under way.
C39_Witness ==
    \E r \in 1..Len(responses) :
       LET jobs == EnqueuedFor(r, enqueued) IN
       /\ requests[r].rawBody = "bodyMixed"
       /\ Len(jobs) = 2
       /\ jobs[1].messageId = "m2" /\ jobs[2].messageId = "m4"
       /\ jobs[1].jid \in DOMAIN runs /\ runs[jobs[1].jid].pc = "done"
       /\ jobs[2].jid \in DOMAIN runs /\ runs[jobs[2].jid].pc = "skipLog"

\* ------------------------------------------------------------ eventToJob

\* The ids the entries of a payload carry: the one of the test, and the one
\* extractJobs passes for an entry without id.
JobEntryIds == {"entry_1", "unknown_thread"}

\* The object without fields.
EmptyObject == [f \in {} |-> Undefined]

\* The objects with the field f of a value of vs, and the one without it.
OptionalField(f, vs) == {EmptyObject} \cup {(f :> v) : v \in vs}

\* The messaging events: every field of MetaMessagingEvent present or
\* absent, the ids empty too, the sender the recipient or not; and the
\* events whose sender, recipient and conversation are objects without id.
JobEvents ==
    {sender @@ recipient @@ conversation @@ message
        : sender \in OptionalField("sender",
                        {[id |-> ""], [id |-> "user_1"], [id |-> "biz_1"]}),
          recipient \in OptionalField("recipient", {[id |-> "biz_1"]}),
          conversation \in OptionalField("conversation", {[id |-> "thread_1"]}),
          message \in OptionalField("message",
                         {mid @@ text @@ echo
                             : mid \in OptionalField("mid", {"", "mid_1"}),
                               text \in OptionalField("text", {"hello there"}),
                               echo \in OptionalField("is_echo", BOOLEAN)})}
    \cup {[sender |-> EmptyObject, recipient |-> EmptyObject,
           conversation |-> EmptyObject, message |-> [mid |-> "mid_1"]],
          [sender |-> [id |-> "user_1"], recipient |-> EmptyObject,
           conversation |-> EmptyObject, message |-> [mid |-> "mid_1"]]}

\* eventToJob(entryId, event) is called.
EventToJobCall(entryId, event) ==
    /\ Len(evaluated) < MaxJobCalls
    /\ evaluated' = Append(evaluated,
          [fn |-> "eventToJob", entryId |-> entryId, event |-> event,
           result |-> eventToJob(entryId, event)])
    /\ EvaluatedUnchanged

NextJobFields ==
    \E entryId \in JobEntryIds, event \in JobEvents : EventToJobCall(entryId, event)

\* eventToJob on its own.
SpecJobFields == InitFaults /\ [][NextJobFields]_vars

JobCalls ==
    {evaluated[i] : i \in {k \in 1..Len(evaluated) : evaluated[k].fn = "eventToJob"}}

\* The event has the object o with the field f.
Carries(event, o, f) == o \in DOMAIN event /\ f \in DOMAIN event[o]

\* C40: for every event with a message id and a sender id, the job's threadId
\* is the event's conversation id when the event has one and otherwise the
\* entry id, "_" and the sender id; its isFromSelfOrSystem is true exactly
\* when the message carries the echo flag or the sender id is the recipient
\* id; and its text is the message's text, the empty string when absent.
C40_JobFieldDerivation ==
    \A c \in JobCalls :
       HasBothIds(c.event) =>
          /\ c.result # NoJob
          /\ c.result.threadId =
                IF Carries(c.event, "conversation", "id")
                THEN c.event.conversation.id
                ELSE c.entryId \o "_" \o c.event.sender.id
          /\ c.result.isFromSelfOrSystem <=>
                \/ Carries(c.event, "message", "is_echo") /\ c.event.message.is_echo
                \/ Carries(c.event, "recipient", "id")
                      /\ c.event.sender.id = c.event.recipient.id
          /\ c.result.text =
                IF "text" \in DOMAIN c.event.message THEN c.event.message.text ELSE ""

\* A message of the business itself, without echo flag, conversation or text,
\* became a job of the entry's thread, marked own, with the empty text.
C40_Witness ==
    \E c \in JobCalls :
       /\ HasBothIds(c.event)
       /\ ~Carries(c.event, "conversation", "id")
       /\ ~Carries(c.event, "message", "is_echo")
       /\ "text" \notin DOMAIN c.event.message
       /\ c.event.sender.id = "biz_1"
       /\ Carries(c.event, "recipient", "id")
       /\ c.event.recipient.id = "biz_1"
       /\ c.result # NoJob
       /\ c.result.threadId = c.entryId \o "_biz_1"
       /\ c.result.isFromSelfOrSystem
       /\ c.result.text = ""

====
